---- MODULE Spec2Model ----
(***************************************************************************)
(* A model of the agent runtime of the browser-automation SDK:             *)
(* AgentRuntime (src/predicate/agent_runtime.py) and the AssertionHandle   *)
(* retry loop.  Python None is the empty sequence and a present value x is *)
(* the one-element sequence <<x>>.  Confidences are tenths (0.7 is 7),     *)
(* times are whole ticks of the monotonic clock.                           *)
(***************************************************************************)
EXTENDS Integers, Sequences, FiniteSets, TLC

VARIABLES
    step_id,                  \* self.step_id
    step_index,               \* self.step_index
    last_snapshot,            \* self.last_snapshot
    _step_pre_snapshot,       \* self._step_pre_snapshot
    _step_pre_url,            \* self._step_pre_url
    _cached_url,              \* self._cached_url
    _assertions_this_step,    \* self._assertions_this_step
    _step_goal,               \* self._step_goal
    _last_action,             \* self._last_action
    _last_action_error,       \* self._last_action_error
    _last_action_outcome,     \* self._last_action_outcome
    _last_action_duration_ms, \* self._last_action_duration_ms
    _last_action_success,     \* self._last_action_success
    _task_done,               \* self._task_done
    _captcha_options,         \* self._captcha_options
    _captcha_retry_count,     \* self._captcha_retry_count
    _artifact_buffer,         \* self._artifact_buffer
    legacy,                   \* hasattr(self, "_legacy_browser")
    events,                   \* what the tracer received from the call in progress (or the last one)
    snap_seq,                 \* how many snapshots the backend has produced in this run
    pc,                       \* where the agent's coroutine stands
    ev,                       \* the frame of the eventually() call in progress (or the last one)
    hist,                     \* history of the run, read by the properties only
    backend_call              \* the call into sentience.backends.snapshot in progress

stepVars == <<step_id, step_index, _step_goal>>
snapVars == <<last_snapshot, _step_pre_snapshot, _step_pre_url, _cached_url>>
lastActionVars == <<_last_action, _last_action_error, _last_action_outcome,
                    _last_action_duration_ms, _last_action_success>>
captchaVars == <<_captcha_options, _captcha_retry_count>>
vars == <<stepVars, snapVars, lastActionVars, captchaVars, _assertions_this_step,
          _task_done, _artifact_buffer, legacy, events, snap_seq, pc, ev, hist,
          backend_call>>

----------------------------------------------------------------------------
(* Bounds of the model *)

\* begin_step calls in one run
MaxBegins == 2
\* snapshots the backend produces in one run
MaxSnaps == 3
\* assertions a client makes within one step
MaxAssertions == 2

----------------------------------------------------------------------------
(* Optional values *)

None == <<>>
Some(x) == <<x>>
IsNone(o) == o = <<>>
Val(o) == o[1]

Min(a, b) == IF a < b THEN a ELSE b
Max(a, b) == IF a > b THEN a ELSE b

----------------------------------------------------------------------------
(* str(int) and the step id f"step-{self.step_index}" *)

DigitChar(d) ==
    CASE d = 0 -> "0" [] d = 1 -> "1" [] d = 2 -> "2" [] d = 3 -> "3" [] d = 4 -> "4"
      [] d = 5 -> "5" [] d = 6 -> "6" [] d = 7 -> "7" [] d = 8 -> "8" [] d = 9 -> "9"

RECURSIVE NatToStr(_)
NatToStr(n) ==
    IF n < 10 THEN <<DigitChar(n)>> ELSE NatToStr(n \div 10) \o <<DigitChar(n % 10)>>

\* Python's str() of an int
IntToStr(n) == IF n < 0 THEN <<"-">> \o NatToStr(0 - n) ELSE NatToStr(n)

StepPrefix == <<"s", "t", "e", "p", "-">>

\* f"step-{self.step_index}"
FormatStepId(idx) == StepPrefix \o IntToStr(idx)

----------------------------------------------------------------------------
(* Snapshots, diagnostics and the CAPTCHA detection rule *)

\* Evidence hit strings the snapshot producer reports (lower-cased by the rule)
HitBframe == "https://www.google.com/recaptcha/api2/bframe"
HitAnchor == "https://www.google.com/recaptcha/api2/anchor"
HitBadge == "recaptcha"
HitRobot == "i'm not a robot"
HitCheckbox == "recaptcha-checkbox"
HitPlease == "captcha please"
HitVerify == "verify captcha"

\* The keywords of _is_captcha_detected that are substrings of a hit string
KeywordsIn(h) ==
    CASE h = HitBframe -> {"captcha", "recaptcha", "api2/bframe"}
      [] h = HitAnchor -> {"captcha", "recaptcha"}
      [] h = HitBadge -> {"captcha", "recaptcha"}
      [] h = HitRobot -> {"i'm not a robot"}
      [] h = HitCheckbox -> {"captcha", "recaptcha", "recaptcha-checkbox"}
      [] h = HitPlease -> {"captcha"}
      [] h = HitVerify -> {"captcha"}
      [] OTHER -> {}

\* The keywords that are substrings of " ".join(hits): those of each hit, and the
\* phrase two neighbouring hits form across the joining space
JoinedKeywords(hits) ==
    UNION {KeywordsIn(hits[i]) : i \in 1..Len(hits)}
    \cup {"please verify" : i \in {j \in 1..(Len(hits) - 1) :
                                     hits[j] = HitPlease /\ hits[j + 1] = HitVerify}}

StrongTextPhrases == {"i'm not a robot", "verify you are human", "human verification",
                      "complete the security check", "please verify"}
StrongIframeTokens == {"api2/bframe", "hcaptcha", "turnstile"}
StrongSelectorTokens == {"g-recaptcha-response", "h-captcha-response",
                         "cf-turnstile-response", "recaptcha-checkbox", "hcaptcha-checkbox"}

Evidence(iframe, url, text, selector) ==
    [iframe_src_hits |-> iframe, url_hits |-> url, text_hits |-> text, selector_hits |-> selector]

CaptchaDiag(detected, confidence, evidence) ==
    [detected |-> detected, confidence |-> confidence, evidence |-> evidence]

\* An interactive challenge frame, reported with confidence 0.9 / 0.5
CaptchaBframe9 == CaptchaDiag(TRUE, 9, Some(Evidence(<<HitBframe>>, <<>>, <<>>, <<>>)))
CaptchaBframe5 == CaptchaDiag(TRUE, 5, Some(Evidence(<<HitBframe>>, <<>>, <<>>, <<>>)))
\* The anchor frame of a reCAPTCHA widget
CaptchaAnchor9 == CaptchaDiag(TRUE, 9, Some(Evidence(<<HitAnchor>>, <<>>, <<>>, <<>>)))
\* A passive badge: a selector hint alone
CaptchaBadge9 == CaptchaDiag(TRUE, 9, Some(Evidence(<<>>, <<>>, <<>>, <<HitBadge>>)))
\* The challenge text and checkbox of a widget
CaptchaRobot9 == CaptchaDiag(TRUE, 9, Some(Evidence(<<>>, <<>>, <<HitRobot>>, <<HitCheckbox>>)))
\* Two text hits that read "please verify" once joined
CaptchaJoined9 == CaptchaDiag(TRUE, 9, Some(Evidence(<<>>, <<>>, <<HitPlease, HitVerify>>, <<>>)))
\* A page whose url alone mentions a captcha
CaptchaUrl9 == CaptchaDiag(TRUE, 9, Some(Evidence(<<>>, <<HitBadge>>, <<>>, <<>>)))

Diagnostics(confidence, captcha) == [confidence |-> confidence, captcha |-> captcha]

\* What the page can look like to one snapshot: url and diagnostics
Content(url, diag) == [url |-> url, diag |-> diag]

MkSnap(c, id) == [id |-> id, url |-> c.url, diag |-> c.diag]

\* Pages of the step-lifecycle runs: two plain pages and a blocking challenge
LifecycleContents ==
    {Content("A", None), Content("B", None),
     Content("A", Some(Diagnostics(Some(9), Some(CaptchaBframe9))))}

SeqToSet(q) == {q[i] : i \in 1..Len(q)}

\* The rule trusts the detector's flag alone
DetectedFlagOnly(snapshot) ==
    /\ ~IsNone(_captcha_options)
    /\ ~IsNone(snapshot.diag)
    /\ ~IsNone(Val(snapshot.diag).captcha)
    /\ Val(Val(snapshot.diag).captcha).detected

\* AgentRuntime._is_captcha_detected
_is_captcha_detected(snapshot) ==
    IF IsNone(_captcha_options) THEN FALSE
    ELSE IF IsNone(snapshot.diag) THEN FALSE
    ELSE IF IsNone(Val(snapshot.diag).captcha) THEN FALSE
    ELSE LET captcha == Val(Val(snapshot.diag).captcha) IN
      IF ~captcha.detected THEN FALSE
      ELSE
        LET weak ==
              IF IsNone(captcha.evidence) THEN FALSE
              ELSE
                LET evidence == Val(captcha.evidence)
                    iframe_hits == evidence.iframe_src_hits
                    url_hits == evidence.url_hits
                    text_hits == evidence.text_hits
                    selector_hits == evidence.selector_hits
                    hits_all == iframe_hits \o url_hits \o text_hits \o selector_hits
                    hits_l == SeqToSet(hits_all)
                    strong_text == JoinedKeywords(hits_all) \cap StrongTextPhrases # {}
                    strong_iframe == \E h \in hits_l : KeywordsIn(h) \cap StrongIframeTokens # {}
                    strong_selector ==
                        \E h \in hits_l : KeywordsIn(h) \cap StrongSelectorTokens # {}
                    only_generic ==
                        /\ ~strong_text
                        /\ ~strong_iframe
                        /\ ~strong_selector
                        /\ \A h \in hits_l : KeywordsIn(h) \cap {"captcha", "recaptcha"} # {}
                IN  \/ (iframe_hits = <<>> /\ url_hits = <<>> /\ text_hits = <<>>)
                    \/ only_generic
        IN  IF weak THEN FALSE
            ELSE captcha.confidence >= Val(_captcha_options).min_confidence

----------------------------------------------------------------------------
(* The tracer *)

\* A verification event of kind "captcha" (_emit_captcha_event)
CaptchaEvent(reason_code) ==
    [type |-> "verification", kind |-> "captcha", label |-> reason_code, passed |-> FALSE,
     reason_code |-> reason_code, final |-> FALSE]

\* The snapshot event of _emit_snapshot_trace
SnapshotEvent == [type |-> "snapshot", kind |-> "snapshot", label |-> "", passed |-> TRUE,
                  reason_code |-> "", final |-> FALSE]

\* The step_start event of begin_step
StepStartEvent == [type |-> "step_start", kind |-> "step_start", label |-> "", passed |-> TRUE,
                   reason_code |-> "", final |-> FALSE]

----------------------------------------------------------------------------
(* AgentRuntime.snapshot, with the CAPTCHA interrupt it runs before returning.  *)
(* A call is computed as a whole: from the state it starts in and what the page, *)
(* the handler and the tracer do, to the state it leaves and how it ends.        *)

\* polls of one wait_until_cleared the model follows
MaxPolls == 2

\* The part of the runtime a snapshot() call reads and writes, as the call starts
SnapStart ==
    [last |-> last_snapshot, pre |-> _step_pre_snapshot, pre_url |-> _step_pre_url,
     cached |-> _cached_url, retry |-> _captcha_retry_count, log |-> <<>>, n |-> 0,
     resets |-> 0, polled |-> FALSE, raised |-> FALSE, reason |-> "",
     first |-> None,   \* the first snapshot the backend produced for this call
     handled |-> 0,    \* how often the call invoked the handler
     action |-> ""]    \* the resolution the call applied

\* The first snapshot of the step is kept: pre_snapshot is overwritten by every snapshot
RecordPreAlways(pre, s) == Some(s)
\* if self._step_pre_snapshot is None: self._step_pre_snapshot = self.last_snapshot
RecordPre(pre, s) == IF IsNone(pre) THEN Some(s) ELSE pre

\* self.last_snapshot = await backend_snapshot(...) and the bookkeeping that follows it
Acquire(st, c) ==
    LET s == MkSnap(c, snap_seq + st.n + 1) IN
    [st EXCEPT !.last = Some(s),
               !.cached = Some(s.url),
               !.pre = RecordPre(st.pre, s),
               !.pre_url = IF IsNone(st.pre) THEN Some(s.url) ELSE st.pre_url,
               !.n = st.n + 1,
               !.first = IF IsNone(st.first) THEN Some(s) ELSE st.first]

Emit(st, e) == [st EXCEPT !.log = Append(st.log, e)]
Raise(st, reason) == [st EXCEPT !.raised = TRUE, !.reason = reason]
\* the call returns self.last_snapshot, after the best-effort snapshot trace
Return(st, traced) == IF traced THEN Emit(st, SnapshotEvent) ELSE st

CanAcquire(st) == snap_seq + st.n < MaxSnaps

\* the wait ends at the first polled snapshot, blocking or not
ClearedAlways(snapshot) == TRUE
\* if not self._is_captcha_detected(snap)
Cleared(snapshot) == ~_is_captcha_detected(snapshot)

\* the retries never count as exhausted
RetriesExhaustedNever(count, max_retries) == FALSE
\* if self._captcha_retry_count > self._captcha_options.max_retries_new_session
RetriesExhausted(count, max_retries) == count > max_retries

\* _wait_until_cleared: up to k more polls, each a snapshot() with
\* _skip_captcha_handling (its own trace may or may not get through)
RECURSIVE WaitOutcomes(_, _, _)
WaitOutcomes(st, k, D) ==
    \* the deadline passes
    {Raise(Emit(st, CaptchaEvent("captcha_wait_timeout")), "captcha_wait_timeout")
        : x \in IF st.polled THEN {1} ELSE {}}
    \cup
    (IF k = 0 \/ ~CanAcquire(st) THEN {}
     ELSE
       \* the polling snapshot fails in the backend
       {Raise(st, "backend_error")}
       \cup
       UNION {
         LET st1 == Return([Acquire(st, c) EXCEPT !.polled = TRUE], TRUE) IN
         IF Cleared(Val(st1.last))
         THEN {Emit(Emit(st1, CaptchaEvent("captcha_cleared")),
                    CaptchaEvent("captcha_resumed"))}
         ELSE WaitOutcomes(st1, k - 1, D)
         : c \in D })

\* _apply_captcha_resolution
ApplyResolution(st0, action, D) ==
    LET opts == Val(_captcha_options)
        st == [st0 EXCEPT !.action = action]
    IN
    CASE action = "abort" ->
           {Raise(Emit(st, CaptchaEvent("captcha_policy_abort")), "captcha_policy_abort")}
      [] action = "retry_new_session" ->
           LET st1 == Emit([st EXCEPT !.retry = st.retry + 1],
                           CaptchaEvent("captcha_retry_new_session")) IN
           IF RetriesExhausted(st1.retry, opts.max_retries_new_session)
           THEN {Raise(Emit(st1, CaptchaEvent("captcha_retry_exhausted")),
                       "captcha_retry_exhausted")}
           ELSE IF ~opts.reset_session
           THEN {Raise(st1, "captcha_retry_new_session")}
           ELSE {[st1 EXCEPT !.resets = st1.resets + 1],
                 Raise([st1 EXCEPT !.resets = st1.resets + 1], "reset_session_error")}
      [] action = "wait_until_cleared" ->
           WaitOutcomes([st EXCEPT !.polled = FALSE], MaxPolls, D)

CaptchaActions == {"abort", "retry_new_session", "wait_until_cleared"}

\* _handle_captcha_if_needed, for a snapshot the rule found blocking
HandleCaptcha(st, D) ==
    LET opts == Val(_captcha_options)
        st1 == Emit(st, CaptchaEvent("captcha_detected"))
    IN  \* the tracer fails on the captcha_detected event
        {Raise(st, "tracer_error")}
        \cup
        (IF opts.policy = "callback"
         THEN IF ~opts.handler
              THEN {Raise(Emit(st1, CaptchaEvent("captcha_handler_error")),
                          "captcha_handler_error")}
              ELSE \* the handler raises, or returns a resolution
                   LET st2 == [st1 EXCEPT !.handled = st1.handled + 1] IN
                   {Raise(Emit(st2, CaptchaEvent("captcha_handler_error")),
                          "captcha_handler_error")}
                   \cup UNION {ApplyResolution(st2, a, D) : a \in CaptchaActions}
         ELSE ApplyResolution(st1, "abort", D))

\* Every way one snapshot() call, made with pages from D, can run from this state
SnapshotOutcomes(D) ==
    LET st0 == SnapStart IN
    \* the backend (or the legacy browser) raises before anything is stored
    {Raise(st0, "backend_error")}
    \cup
    (IF ~CanAcquire(st0) THEN {}
     ELSE UNION {
       LET st1 == Acquire(st0, c) IN
       IF legacy THEN {Return(st1, TRUE)}
       ELSE IF IsNone(_captcha_options) \/ ~_is_captcha_detected(Val(st1.last))
       THEN {Return(st1, TRUE)}
       ELSE {IF o.raised THEN o ELSE Return(o, TRUE) : o \in HandleCaptcha(st1, D)}
       : c \in D })

----------------------------------------------------------------------------
(* The state after AgentRuntime.__init__ *)

\* The arguments of an eventually() call, with the handle's predicate, label and required
EvArgs(timeout_s, poll_s, min_confidence, max_snapshot_attempts, growth, kwargs_limit, vision, kind, label, required) ==
    [timeout_s |-> timeout_s, poll_s |-> poll_s, min_confidence |-> min_confidence,
     max_snapshot_attempts |-> max_snapshot_attempts, growth |-> growth,
     kwargs_limit |-> kwargs_limit, vision |-> vision, kind |-> kind, label |-> label,
     required |-> required]

\* The frame of an eventually() call: its arguments, its locals, the clock (ticks since
\* the call started) and what the call has done so far
EvFrame(args, growth, base) ==
    [args |-> args,
     status |-> "running",        \* running | returned | raised
     result |-> FALSE,            \* what the call returned
     growth |-> growth,           \* growth_start, growth_step, growth_max, resolved
     deadline |-> args.timeout_s, \* time.monotonic() + timeout_s
     attempt |-> 0,
     snapshot_attempt |-> 0,
     last_outcome |-> None,
     now |-> 0,
     base |-> base,               \* records the step had accumulated when the call began
     limits |-> <<>>,             \* the limit each snapshot() of the call was given
     evaluated |-> {},            \* the snapshots the predicate was evaluated against
     gated |-> 0,                 \* attempts stopped at the confidence gate
     low |-> {},                  \* the snapshots they were stopped for
     snap_dur |-> 0,              \* how long the last snapshot() took
     eval_dur |-> 0,              \* how long the last predicate evaluation took
     gate_at |-> 0,               \* when the last snapshot() returned
     late |-> FALSE,              \* a deadline check found now >= deadline
     exhausted |-> FALSE,         \* a gated attempt found snapshot_attempt >= max
     vision_tried |-> FALSE,      \* the fallback was entered
     vision_reply |-> None,       \* the content the provider replied with
     vision_error |-> ""]         \* what raised inside the fallback: screenshot | provider | record

\* ev before any eventually() call
NoCall ==
    [EvFrame(EvArgs(0, 0, None, 0, None, None, "none", "never", "", FALSE), None, 0)
        EXCEPT !.status = "none"]

\* An assertion call that ended: which operation it was, its label and required flag,
\* whether it returned and what, the records it accumulated and the reasons it handed to
\* _persist_failure_artifacts
Final(op, label, required, returned, result, records, reasons) ==
    [op |-> op, label |-> label, required |-> required, returned |-> returned,
     result |-> result, records |-> records, reasons |-> reasons]

NoFinal == Final("none", "", FALSE, FALSE, FALSE, <<>>, <<>>)

\* An emit_step_end call: the verify_passed, verify_signals["url_changed"] and post_url
\* it was given, whether it returned, and the step it found
EndCall(verify_passed, url_changed, post_url, returned, id, assertions) ==
    [called |-> TRUE, verify_passed |-> verify_passed, url_changed |-> url_changed,
     post_url |-> post_url, returned |-> returned, step_id |-> id,
     assertions |-> assertions]

NoEnd == [EndCall(<<>>, <<>>, <<>>, FALSE, <<>>, <<>>) EXCEPT !.called = FALSE]

\* A snapshot() call: the first snapshot it acquired and how many, the handler
\* invocations, the resolution applied, how it ended, the reset_session calls, and the
\* retry counter it found
SnapshotCallOf(o, retry) ==
    [first |-> o.first, n |-> o.n, handled |-> o.handled, action |-> o.action,
     raised |-> o.raised, reason |-> o.reason, resets |-> o.resets, retry |-> retry]

NoSnapshotCall ==
    [first |-> <<>>, n |-> 0, handled |-> 0, action |-> "", raised |-> FALSE,
     reason |-> "none", resets |-> 0, retry |-> 0]

HistInit ==
    [begins |-> 0,                \* begin_step calls so far
     last_begin |-> "none",       \* how the last begin_step got its index: auto | explicit
     prev_index |-> -1,           \* step_index before the last begin_step
     begin_ret |-> None,          \* what the last begin_step returned
     begin_goal |-> None,         \* the goal the last begin_step was given
     reset_nonempty |-> FALSE,    \* the last begin_step found per-step state to clear
     first_acquired |-> None,     \* first snapshot the backend produced in this step
     first_returned |-> None,     \* first snapshot a snapshot() call returned in this step
     last_acquired |-> None,      \* latest snapshot the backend produced in this run
     last_call |-> "none",        \* how the last snapshot() call ended: returned | raised
     last_ret |-> None,           \* what the last snapshot() call that returned returned
     resets |-> 0,                \* reset_session calls since set_captcha_options
     flushes |-> 0,               \* flush_assertions calls so far
     req_failed |-> FALSE,        \* a required record that failed was accumulated since
                                  \* the last begin_step or flush_assertions
     fin |-> NoFinal,             \* the last assert_, scroll_by or eventually call that
                                  \* ended in this step
     end |-> NoEnd,               \* the last emit_step_end call
     call |-> NoSnapshotCall,     \* the last snapshot() call of this step
     just_set |-> FALSE]          \* no snapshot() since the last set_captcha_options

\* No call into sentience.backends.snapshot is in progress
NoBackendCall == [status |-> "none"]

\* AgentRuntime.__init__ (legacy: the runtime was built by from_sentience_browser)
Init ==
    /\ step_id = None
    /\ step_index = -1
    /\ last_snapshot = None
    /\ _step_pre_snapshot = None
    /\ _step_pre_url = None
    /\ _cached_url = None
    /\ _assertions_this_step = <<>>
    /\ _step_goal = None
    /\ _last_action = None
    /\ _last_action_error = None
    /\ _last_action_outcome = None
    /\ _last_action_duration_ms = None
    /\ _last_action_success = None
    /\ _task_done = FALSE
    /\ _captcha_options = None
    /\ _captcha_retry_count = 0
    /\ _artifact_buffer = None
    /\ legacy \in BOOLEAN
    /\ events = <<>>
    /\ snap_seq = 0
    /\ pc = "idle"
    /\ ev = NoCall
    /\ hist = HistInit
    /\ backend_call = NoBackendCall

----------------------------------------------------------------------------
(* Predicates and the assertion context *)

\* AgentRuntime._ctx: the url the predicates see
CtxUrl ==
    IF ~IsNone(last_snapshot) THEN Some(Val(last_snapshot).url)
    ELSE IF ~IsNone(_cached_url) THEN _cached_url
    ELSE None

\* The predicates a client asserts: the page reached url "B", a predicate that always
\* or never passes, and one that raises
PredicateKinds == {"url_is_B", "always", "never", "raises"}

\* predicate(ctx): an AssertOutcome, or an exception
PredicateOutcome(kind, url) ==
    LET passed == CASE kind = "url_is_B" -> url = Some("B")
                    [] kind = "always" -> TRUE
                    [] OTHER -> FALSE
    IN  [raised |-> kind = "raises", passed |-> passed,
         reason |-> IF passed THEN "" ELSE "not done", reason_code |-> ""]

\* The dict _record_outcome builds (details.reason_code and the extra flags spelled out)
Record(label, required, outcome, extra) ==
    [label |-> label, passed |-> outcome.passed, required |-> required,
     reason |-> outcome.reason, reason_code |-> outcome.reason_code,
     eventually |-> "eventually" \in extra, final |-> "final" \in extra,
     timeout |-> "timeout" \in extra, exhausted |-> "exhausted" \in extra,
     vision_fallback |-> "vision_fallback" \in extra]

\* The verification event _record_outcome emits for a record
VerificationEvent(kind, record) ==
    [type |-> "verification", kind |-> kind, label |-> record.label, passed |-> record.passed,
     reason_code |-> record.reason_code, final |-> record.final]

\* The task_done event of assert_done
TaskDoneEvent(label) ==
    [type |-> "verification", kind |-> "task_done", label |-> label, passed |-> TRUE,
     reason_code |-> "", final |-> FALSE]

\* if record_in_step: self._assertions_this_step.append(record)
Accumulate(assertions, record, record_in_step) ==
    IF record_in_step THEN Append(assertions, record) ELSE assertions

\* every record passed, required or not
AllPassed(assertions) ==
    \A i \in 1..Len(assertions) : assertions[i].passed
\* AgentRuntime.required_assertions_passed, over a list of records
RequiredPassed(assertions) ==
    \A i \in 1..Len(assertions) : assertions[i].required => assertions[i].passed

\* f"assert_failed:{label}" and the other reasons handed to _persist_failure_artifacts
PersistReason(prefix, label) == prefix \o ":" \o label

\* The history after records were accumulated
NoteRecords(h, records) ==
    [h EXCEPT !.req_failed =
        h.req_failed \/ \E i \in 1..Len(records) : records[i].required /\ ~records[i].passed]

\* The history after an assertion call ended as fin
NoteFinal(h, fin) == [NoteRecords(h, fin.records) EXCEPT !.fin = fin]

----------------------------------------------------------------------------
(* AgentRuntime.begin_step *)

Goals == {"g1", "g2"}
\* explicit step_index arguments a caller passes
ExplicitIndexes == {-1, 0, 2}

\* begin_step that builds step_id before it updates step_index
NewStepIdStale(old_index, new_index) == FormatStepId(old_index)
\* self.step_id = f"step-{self.step_index}", after the index was updated
NewStepId(old_index, new_index) == FormatStepId(new_index)

\* if step_index is not None: self.step_index = step_index, else self.step_index += 1
NewStepIndex(explicit) ==
    IF IsNone(explicit) THEN step_index + 1 ELSE Val(explicit)

\* "Clear previous step state" that leaves the last action's result behind
ClearStepStateKeepingResult(goal) ==
    /\ _assertions_this_step' = <<>>
    /\ _step_pre_snapshot' = None
    /\ _step_pre_url' = None
    /\ _step_goal' = Some(goal)
    /\ _last_action' = None
    /\ UNCHANGED <<_last_action_error, _last_action_outcome, _last_action_duration_ms,
                   _last_action_success>>
\* "Clear previous step state" of begin_step
ClearStepState(goal) ==
    /\ _assertions_this_step' = <<>>
    /\ _step_pre_snapshot' = None
    /\ _step_pre_url' = None
    /\ _step_goal' = Some(goal)
    /\ _last_action' = None
    /\ _last_action_error' = None
    /\ _last_action_outcome' = None
    /\ _last_action_duration_ms' = None
    /\ _last_action_success' = None

\* begin_step(goal, step_index=explicit, emit_trace, ...); traced: emit_trace was set and
\* the tracer took the step_start event (its failure is swallowed)
BeginStep(goal, explicit, traced) ==
    /\ pc = "idle"
    /\ hist.begins < MaxBegins
    /\ ClearStepState(goal)
    /\ step_index' = NewStepIndex(explicit)
    /\ step_id' = Some(NewStepId(step_index, step_index'))
    /\ events' = IF traced THEN <<StepStartEvent>> ELSE <<>>
    /\ hist' = [hist EXCEPT !.begins = hist.begins + 1,
                            !.last_begin = IF IsNone(explicit) THEN "auto" ELSE "explicit",
                            !.prev_index = step_index,
                            !.begin_ret = step_id',
                            !.begin_goal = Some(goal),
                            !.reset_nonempty =
                                /\ ~RequiredPassed(_assertions_this_step)
                                /\ ~IsNone(_step_pre_snapshot)
                                /\ ~IsNone(_step_pre_url)
                                /\ ~IsNone(_last_action)
                                /\ ~IsNone(_last_action_error)
                                /\ ~IsNone(_last_action_outcome)
                                /\ ~IsNone(_last_action_duration_ms)
                                /\ ~IsNone(_last_action_success),
                            !.first_acquired = None,
                            !.first_returned = None,
                            !.req_failed = FALSE,
                            !.fin = NoFinal,
                            !.call = NoSnapshotCall]
    /\ UNCHANGED <<last_snapshot, _cached_url, _task_done, captchaVars, _artifact_buffer,
                   legacy, backend_call, snap_seq, pc, ev>>

BeginStepCall ==
    \E goal \in Goals, explicit \in {None} \cup {Some(i) : i \in ExplicitIndexes},
       traced \in BOOLEAN :
        BeginStep(goal, explicit, traced)

----------------------------------------------------------------------------
(* AgentRuntime.snapshot as a call of the agent *)

\* The runtime after a snapshot() call that ran as o
ApplySnapshot(o) ==
    /\ last_snapshot' = o.last
    /\ _step_pre_snapshot' = o.pre
    /\ _step_pre_url' = o.pre_url
    /\ _cached_url' = o.cached
    /\ _captcha_retry_count' = o.retry
    /\ snap_seq' = snap_seq + o.n
    /\ hist' = [hist EXCEPT
            !.first_acquired =
                IF IsNone(hist.first_acquired) THEN o.first ELSE hist.first_acquired,
            !.first_returned =
                IF IsNone(hist.first_returned) /\ ~o.raised THEN o.last ELSE hist.first_returned,
            !.last_acquired = IF o.n > 0 THEN o.last ELSE hist.last_acquired,
            !.last_call = IF o.raised THEN "raised" ELSE "returned",
            !.last_ret = IF o.raised THEN hist.last_ret ELSE o.last,
            !.resets = hist.resets + o.resets,
            !.call = SnapshotCallOf(o, _captcha_retry_count),
            !.just_set = FALSE]

\* await runtime.snapshot(), the page showing one of D
Snapshot(D) ==
    /\ pc = "idle"
    /\ \E o \in SnapshotOutcomes(D) : ApplySnapshot(o) /\ events' = o.log
    /\ UNCHANGED <<stepVars, lastActionVars, _captcha_options, _assertions_this_step,
                   _task_done, _artifact_buffer, legacy, backend_call, pc, ev>>

SnapshotCall == Snapshot(LifecycleContents)

----------------------------------------------------------------------------
(* AgentRuntime.set_captcha_options *)

CaptchaOptions(policy, handler, reset_session) ==
    [policy |-> policy, min_confidence |-> 7, max_retries_new_session |-> 1,
     handler |-> handler, reset_session |-> reset_session]

\* The options of the CAPTCHA runs: with reset_session unset, as it is by default
CaptchaPolicyChoices ==
    {CaptchaOptions("abort", FALSE, FALSE),
     CaptchaOptions("callback", TRUE, TRUE),
     CaptchaOptions("callback", TRUE, FALSE),
     CaptchaOptions("callback", FALSE, FALSE)}

CaptchaOptionChoices ==
    {CaptchaOptions("abort", FALSE, FALSE),
     CaptchaOptions("callback", TRUE, TRUE),
     CaptchaOptions("callback", FALSE, FALSE)}

SetCaptchaOptions(options) ==
    /\ pc = "idle"
    /\ _captcha_options' = Some(options)
    /\ _captcha_retry_count' = 0
    /\ events' = <<>>
    /\ hist' = [hist EXCEPT !.resets = 0, !.just_set = TRUE]
    /\ UNCHANGED <<stepVars, snapVars, lastActionVars, _assertions_this_step, _task_done,
                   _artifact_buffer, legacy, backend_call, snap_seq, pc, ev>>

SetCaptchaOptionsCall == \E options \in CaptchaOptionChoices : SetCaptchaOptions(options)

----------------------------------------------------------------------------
(* The runs of the CAPTCHA interrupt: options are set, snapshots are taken *)

CaptchaPage(diag) == Content("A", Some(Diagnostics(Some(9), Some(diag))))

\* A plain page, and pages reporting a detection with each kind of evidence
CaptchaContents ==
    {Content("A", None)} \cup
    {CaptchaPage(d) : d \in {CaptchaBframe9, CaptchaBframe5, CaptchaAnchor9, CaptchaBadge9,
                             CaptchaRobot9, CaptchaJoined9, CaptchaUrl9}}

CaptchaSetCall == \E options \in CaptchaPolicyChoices : SetCaptchaOptions(options)

CaptchaSnapshotCall == Snapshot(CaptchaContents)

NextCaptcha ==
    \/ CaptchaSetCall
    \/ CaptchaSnapshotCall

SpecCaptcha == Init /\ [][NextCaptcha]_vars

----------------------------------------------------------------------------
(* The failure-artifact buffer, as far as the runtime's step state needs it *)

\* actions a client records while artifacts are enabled
MaxActions == 1
\* frames one buffer is given
MaxFrames == 2
\* how far the buffer's clock runs, in ticks
MaxClock == 3
\* ticks of the clock in one millisecond
TicksPerMs == 2

\* f"frame_{int(ts * 1000)}.{fmt}": the file name keeps the whole milliseconds of ts
FrameFile(ts) == <<"frame", ts \div TicksPerMs, "png">>

\* A path: a file name under the buffer's temporary frames/, or where a redaction
\* callback points to ("redacted": a file it wrote, "missing": no file)
Path(dir, name) == [dir |-> dir, name |-> name]

\* FailureArtifactBuffer.__init__ with its options; the ring of frame records, the files
\* under the temporary frames/ and the bundles persist() has written
ArtifactBuffer(persist_mode, capture_on_action) ==
    [persist_mode |-> persist_mode, capture_on_action |-> capture_on_action,
     buffer_ticks |-> 2, on_before_persist |-> "none",
     _frames |-> <<>>, temp |-> {}, cleaned |-> FALSE, steps |-> 0, clock |-> 0,
     persisted |-> FALSE, status |-> "", reason |-> "", bundles |-> <<>>,
     ret_first |-> "",    \* what the first persist() returned: path | None
     ret_later |-> {},    \* what the persist() calls after it returned
     redact_snapshot_values |-> TRUE, clip_mode |-> "auto",
     \* self._artifact_timer_task of the runtime that owns the buffer: "none" while there
     \* is no task, "running", "cancelled", or "failed" once an exception ended its loop
     timer |-> "none",
     \* a persist() under way: the files of the bundle directory and of its frames
     \* directory as <<name, state>>, the file operations still to do, the bundle they
     \* write, and whether the process was terminated
     run_dir |-> {}, frames_out |-> {}, ops_left |-> <<>>, writing |-> None,
     terminated |-> FALSE,
     stamps |-> <<>>,     \* the ts of every add_frame so far
     dropped |-> 0,       \* frames pruned so far
     pruned |-> <<>>,     \* the frame records the last _prune dropped
     pruned_at |-> -1]    \* the time of the last _prune

\* _prune keeps every frame
PruneNothing(b) == [b EXCEPT !.pruned = <<>>, !.pruned_at = b.clock]

\* FailureArtifactBuffer._prune
_prune(b) ==
    LET cutoff == b.clock - Max(0, b.buffer_ticks)
        keep == SelectSeq(b._frames, LAMBDA frame : frame.ts >= cutoff)
        drop == SelectSeq(b._frames, LAMBDA frame : ~(frame.ts >= cutoff))
        gone == {drop[i].file_name : i \in 1..Len(drop)}
    IN  [b EXCEPT !._frames = keep, !.temp = b.temp \ gone,
                  !.dropped = b.dropped + Len(drop), !.pruned = drop, !.pruned_at = b.clock]

\* FailureArtifactBuffer.frame_count
frame_count(b) == Len(b._frames)

\* FailureArtifactBuffer.add_frame, in a buffer whose temporary directory exists; the
\* clock moves on by delay between the frame's ts and the time _prune reads
AddFrameTaking(b, delay) ==
    LET ts == b.clock
        file_name == FrameFile(ts)
    IN  _prune([b EXCEPT !.temp = b.temp \cup {file_name},
                         !._frames = Append(b._frames, [ts |-> ts, file_name |-> file_name]),
                         !.stamps = Append(b.stamps, ts),
                         !.clock = b.clock + delay])

add_frame(b) == AddFrameTaking(b, 0)

\* a callback that raises leaves drop_frames as it was
KeepOnError == FALSE
\* except Exception: drop_frames = True
DropOnError == TRUE

\* What on_before_persist makes of frame_paths: the paths to copy and drop_frames
Redaction(callback, frame_paths) ==
    CASE callback = "none" -> [frame_paths |-> frame_paths, drop_frames |-> FALSE]
      [] callback = "keep" -> [frame_paths |-> frame_paths, drop_frames |-> FALSE]
      [] callback = "drop" -> [frame_paths |-> frame_paths, drop_frames |-> TRUE]
      [] callback = "raises" -> [frame_paths |-> frame_paths, drop_frames |-> DropOnError]
      [] callback = "redacted" ->
           [frame_paths |-> [i \in 1..Len(frame_paths) |->
                                Path("redacted", frame_paths[i].name)],
            drop_frames |-> FALSE]
      [] callback = "first" ->
           [frame_paths |-> SubSeq(frame_paths, 1, Min(1, Len(frame_paths))),
            drop_frames |-> FALSE]
      [] callback = "missing" ->
           [frame_paths |-> <<Path("missing", FrameFile(0))>>, drop_frames |-> FALSE]
      [] callback = "substitutes" -> [frame_paths |-> frame_paths, drop_frames |-> FALSE]

Callbacks == {"none", "keep", "drop", "raises", "redacted", "first", "missing"}

\* src.exists() of a frame path
Exists(b, path) ==
    \/ path.dir = "temp" /\ path.name \in b.temp
    \/ path.dir = "redacted"

\* persist() without the check of self._persisted
NeverPersisted(b) == FALSE
\* persist() returns at once on a buffer that has persisted
AlreadyPersisted(b) == b.persisted

\* An element of a snapshot payload; value is "absent" when the dict has no "value" key
\* and "null" when it holds None; value_redacted is FALSE when the key is missing
Element(input_type, value) ==
    [input_type |-> input_type, value |-> value, value_redacted |-> FALSE]

\* str.lower() of an input_type
LowerType(input_type) ==
    CASE input_type = "EMAIL" -> "email"
      [] input_type = "Password" -> "password"
      [] OTHER -> input_type

SensitiveTypes == {"password", "email", "tel"}

\* _redact_snapshot_defaults leaves every element as it is
RedactNothing(payload) == payload

\* FailureArtifactBuffer._redact_snapshot_defaults, on the list payload["elements"]
_redact_snapshot_defaults(payload) ==
    [i \in 1..Len(payload) |->
        LET el == payload[i] IN
        IF LowerType(el.input_type) \in SensitiveTypes /\ el.value # "absent"
        THEN [el EXCEPT !.value = "null", !.value_redacted = TRUE]
        ELSE el]

\* The snapshot of an on_before_persist result: None unless the callback substitutes one
ResultSnapshot(callback, own) == IF callback = "substitutes" THEN own ELSE None

\* What a persist() call is given besides reason and status: the snapshot (None, or the
\* elements of its dump), the snapshot the callback would substitute, and whether ffmpeg
\* is on the PATH and encodes the clip
PersistInput(snapshot, own, ffmpeg) == [snapshot |-> snapshot, own |-> own, ffmpeg |-> ffmpeg]

NoPersistInput == PersistInput(None, None, FALSE)

RECURSIVE CopyOps(_)

\* FailureArtifactBuffer.persist
PersistWith(b, reason, status, in) ==
    IF AlreadyPersisted(b)
    THEN [b EXCEPT !.ret_later = b.ret_later \cup {"None"}]
    ELSE LET redacted == IF IsNone(in.snapshot) THEN None
                         ELSE IF b.redact_snapshot_values
                         THEN Some(_redact_snapshot_defaults(Val(in.snapshot)))
                         ELSE in.snapshot
             frame_paths == [i \in 1..Len(b._frames) |-> Path("temp", b._frames[i].file_name)]
             result == Redaction(b.on_before_persist, frame_paths)
             given == ResultSnapshot(b.on_before_persist, in.own)
             snapshot_payload == IF IsNone(given) THEN redacted ELSE given
             paths == result.frame_paths
             copied == IF result.drop_frames THEN {}
                       ELSE {paths[i].name : i \in {j \in 1..Len(paths) : Exists(b, paths[j])}}
             clip_generated == /\ ~result.drop_frames
                               /\ Len(paths) > 0
                               /\ b.clip_mode # "off"
                               /\ in.ffmpeg
                               /\ copied # {}
             bundle == [frames_out |-> copied,
                        snapshot |-> snapshot_payload,
                        clip |-> clip_generated,
                        files |-> {"steps.json", "manifest.json"}
                                    \cup (IF IsNone(snapshot_payload) THEN {}
                                          ELSE {"snapshot.json"})
                                    \cup (IF clip_generated THEN {"failure.mp4"} ELSE {}),
                        given |-> in,
                        frame_count |-> IF result.drop_frames THEN 0 ELSE Len(paths),
                        frames |-> IF result.drop_frames THEN <<>>
                                   ELSE [i \in 1..Len(paths) |-> paths[i].name],
                        status |-> status, reason |-> reason,
                        frames_dropped |-> result.drop_frames,
                        \* the add_frame calls before it, and whether the temporary
                        \* directory was still there
                        stamps |-> b.stamps, cleaned |-> b.cleaned]
         IN  [b EXCEPT !.persisted = TRUE,
                       !.status = IF b.bundles = <<>> THEN status ELSE b.status,
                       !.reason = IF b.bundles = <<>> THEN reason ELSE b.reason,
                       !.bundles = Append(b.bundles, bundle),
                       !.ret_first = IF b.ret_first = "" THEN "path" ELSE b.ret_first,
                       !.ret_later = IF b.ret_first = "" THEN b.ret_later
                                     ELSE b.ret_later \cup {"path"}]

\* path.with_suffix(path.suffix + ".tmp")
TmpName(name) == name \o ".tmp"

\* the JSON text is written straight into the file of the final name
WriteInPlace(name) == <<<<"open", name>>, <<"close", name>>>>

\* FailureArtifactBuffer._write_json_atomic as file operations: write_text opens the .tmp
\* file and fills it, replace renames it
_write_json_atomic(name) ==
    <<<<"open", TmpName(name)>>, <<"close", TmpName(name)>>, <<"replace", TmpName(name), name>>>>

\* shutil.copy2(src, frames_out / src.name) for each frame that persist copies
CopyOps(names) ==
    IF names = <<>> THEN <<>>
    ELSE <<<<"copy", Head(names)>>, <<"copied", Head(names)>>>> \o CopyOps(Tail(names))

\* The file operations of persist() in their order: the frames, steps.json, snapshot.json,
\* the clip, manifest.json
PersistOps(bundle) ==
    CopyOps(SelectSeq(bundle.frames, LAMBDA name : name \in bundle.frames_out))
    \o _write_json_atomic("steps.json")
    \o (IF "snapshot.json" \in bundle.files THEN _write_json_atomic("snapshot.json") ELSE <<>>)
    \o (IF bundle.clip THEN <<<<"open", "failure.mp4">>, <<"close", "failure.mp4">>>> ELSE <<>>)
    \o _write_json_atomic("manifest.json")

\* A directory after one file operation
ApplyOp(dir, op) ==
    LET others(name) == {f \in dir : f[1] # name} IN
    CASE op[1] \in {"open", "copy"} -> others(op[2]) \cup {<<op[2], "partial">>}
      [] op[1] \in {"close", "copied"} -> others(op[2]) \cup {<<op[2], "complete">>}
      [] op[1] = "replace" ->
           {f \in others(op[3]) : f[1] # op[2]}
             \cup {<<op[3], f[2]>> : f \in {g \in dir : g[1] = op[2]}}

\* The buffer after the next file operation of its persist()
DoOp(b) ==
    LET op == Head(b.ops_left) IN
    IF op[1] \in {"copy", "copied"}
    THEN [b EXCEPT !.frames_out = ApplyOp(b.frames_out, op), !.ops_left = Tail(b.ops_left)]
    ELSE [b EXCEPT !.run_dir = ApplyOp(b.run_dir, op), !.ops_left = Tail(b.ops_left)]

\* persist() of a buffer whose run has no snapshot
persist(b, reason, status) == PersistWith(b, reason, status, NoPersistInput)

\* FailureArtifactBuffer.cleanup
cleanup(b) == [b EXCEPT !.temp = {}, !.cleaned = TRUE]

\* AgentRuntime.disable_failure_artifacts
disable_failure_artifacts(b) ==
    IF b.timer = "running" THEN [b EXCEPT !.timer = "cancelled"] ELSE b

\* AgentRuntime._persist_failure_artifacts: FailureArtifactBuffer.persist, then cleanup,
\* then disable_failure_artifacts under "onFail"
PersistFailure(buffer, reason) ==
    IF IsNone(buffer) THEN buffer
    ELSE LET after == cleanup(persist(Val(buffer), reason, "failure"))
         IN  Some(IF after.persist_mode = "onFail" THEN disable_failure_artifacts(after)
                  ELSE after)

\* AgentRuntime.enable_failure_artifacts
EnableFailureArtifacts(persist_mode, capture_on_action) ==
    /\ pc = "idle"
    /\ IsNone(_artifact_buffer)
    /\ _artifact_buffer' = Some(ArtifactBuffer(persist_mode, capture_on_action))
    /\ events' = <<>>
    /\ UNCHANGED <<stepVars, snapVars, lastActionVars, captchaVars, _assertions_this_step,
                   _task_done, legacy, backend_call, snap_seq, pc, ev, hist>>

\* a successful run is persisted under every persist_mode
PersistsEverySuccess(b) == TRUE
\* if self._artifact_buffer.options.persist_mode == "always"
PersistsOnSuccess(b) == b.persist_mode = "always"

\* AgentRuntime.finalize_run(success)
FinalizeRun(success) ==
    /\ pc = "idle"
    /\ _artifact_buffer' =
         IF IsNone(_artifact_buffer) THEN _artifact_buffer
         ELSE IF success
         THEN LET b == Val(_artifact_buffer) IN
              Some(cleanup(IF PersistsOnSuccess(b) THEN persist(b, "success", "success")
                           ELSE b))
         ELSE PersistFailure(_artifact_buffer, "finalize_failure")
    /\ events' = <<>>
    /\ UNCHANGED <<stepVars, snapVars, lastActionVars, captchaVars, _assertions_this_step,
                   _task_done, legacy, backend_call, snap_seq, pc, ev, hist>>

\* AgentRuntime.record_action; shot: the backend delivered the screenshot.  A frame is
\* written into the buffer's temporary directory, which cleanup() removes: after it
\* add_frame raises out of record_action
RecordAction(action, shot) ==
    /\ pc = "idle"
    /\ _last_action' = Some(action)
    /\ IF IsNone(_artifact_buffer) THEN UNCHANGED _artifact_buffer
       ELSE LET b == Val(_artifact_buffer) IN
            /\ b.steps < MaxActions
            /\ _artifact_buffer' =
                 LET stepped == [b EXCEPT !.steps = b.steps + 1] IN
                 Some(IF b.capture_on_action /\ shot /\ ~b.cleaned
                      THEN add_frame(stepped) ELSE stepped)
    /\ events' = <<>>
    /\ UNCHANGED <<stepVars, snapVars, _last_action_error, _last_action_outcome,
                   _last_action_duration_ms, _last_action_success, captchaVars,
                   _assertions_this_step, _task_done, legacy, backend_call, snap_seq, pc, ev, hist>>

\* The step loop notes how the action went (section 7: backend exceptions are recorded
\* in last_action_error and the step is closed with success=false)
NoteActionResult(success) ==
    /\ pc = "idle"
    /\ ~IsNone(_last_action)
    /\ _last_action_success' = Some(success)
    /\ _last_action_error' = IF success THEN None ELSE Some("backend_error")
    /\ _last_action_outcome' = Some(IF success THEN "ok" ELSE "error")
    /\ _last_action_duration_ms' = Some(5)
    /\ events' = <<>>
    /\ UNCHANGED <<stepVars, snapVars, _last_action, captchaVars, _assertions_this_step,
                   _task_done, _artifact_buffer, legacy, backend_call, snap_seq, pc, ev, hist>>

----------------------------------------------------------------------------
(* AgentRuntime.assert_ (AssertionHandle.once) and assert_done *)

Labels == {"check"}

\* assert_(predicate, label, required); traced: the tracer took the verification event.
\* A predicate that raises, raises out of assert_ before anything is recorded; a tracer
\* that raises, raises out of it after the record was accumulated
assert_(kind, label, required, traced) ==
    LET outcome == PredicateOutcome(kind, CtxUrl)
        record == Record(label, required, outcome, {})
    IN  /\ pc = "idle"
        /\ Len(_assertions_this_step) < MaxAssertions
        /\ IF outcome.raised
           THEN /\ events' = <<>>
                /\ hist' = NoteFinal(hist, Final("assert", label, required, FALSE, FALSE,
                                                 <<>>, <<>>))
                /\ UNCHANGED <<_assertions_this_step, _artifact_buffer>>
           ELSE LET persists == traced /\ required /\ ~outcome.passed
                    reason == PersistReason("assert_failed", label)
                IN  /\ _assertions_this_step' =
                         Accumulate(_assertions_this_step, record, TRUE)
                    /\ events' =
                         IF traced THEN <<VerificationEvent("assert", record)>> ELSE <<>>
                    /\ _artifact_buffer' =
                         IF persists THEN PersistFailure(_artifact_buffer, reason)
                         ELSE _artifact_buffer
                    /\ hist' = NoteFinal(hist,
                                   Final("assert", label, required, traced, outcome.passed,
                                         Accumulate(<<>>, record, TRUE),
                                         IF persists THEN <<reason>> ELSE <<>>))
        /\ UNCHANGED <<stepVars, snapVars, lastActionVars, captchaVars, _task_done, legacy, backend_call,
                       snap_seq, pc, ev>>

\* runtime.assert_(...) / runtime.check(...).once()
AssertOnceCall ==
    \E kind \in PredicateKinds, label \in Labels, required \in BOOLEAN, traced \in BOOLEAN :
        assert_(kind, label, required, traced)

\* assert_done(predicate, label): assert_ with required=True; on a pass the task is
\* marked done and a task_done event follows (traced_done: the tracer took it)
assert_done(kind, label, traced, traced_done) ==
    LET outcome == PredicateOutcome(kind, CtxUrl)
        record == Record(label, TRUE, outcome, {})
        ok == traced /\ outcome.passed
    IN  /\ pc = "idle"
        /\ Len(_assertions_this_step) < MaxAssertions
        /\ IF outcome.raised
           THEN /\ events' = <<>>
                /\ UNCHANGED <<_assertions_this_step, _artifact_buffer, _task_done, hist>>
           ELSE LET persists == traced /\ ~outcome.passed
                    reason == PersistReason("assert_failed", label)
                IN  /\ _assertions_this_step' =
                         Accumulate(_assertions_this_step, record, TRUE)
                    /\ events' =
                         (IF traced THEN <<VerificationEvent("assert", record)>> ELSE <<>>)
                         \o (IF ok /\ traced_done THEN <<TaskDoneEvent(label)>> ELSE <<>>)
                    /\ _artifact_buffer' =
                         IF persists THEN PersistFailure(_artifact_buffer, reason)
                         ELSE _artifact_buffer
                    /\ _task_done' = IF ok THEN TRUE ELSE _task_done
                    /\ hist' = NoteRecords(hist, Accumulate(<<>>, record, TRUE))
        /\ UNCHANGED <<stepVars, snapVars, lastActionVars, captchaVars, legacy, backend_call, snap_seq,
                       pc, ev>>

AssertDoneCall ==
    \E kind \in {"always", "never"}, label \in Labels, traced \in BOOLEAN,
       traced_done \in BOOLEAN :
        assert_done(kind, label, traced, traced_done)

----------------------------------------------------------------------------
(* flush_assertions, scroll_by and emit_step_end *)

\* flush_assertions calls in one run
MaxFlushes == 1

\* AgentRuntime.flush_assertions
FlushAssertions ==
    /\ pc = "idle"
    /\ hist.flushes < MaxFlushes
    /\ _assertions_this_step' = <<>>
    /\ events' = <<>>
    /\ hist' = [hist EXCEPT !.flushes = hist.flushes + 1, !.req_failed = FALSE]
    /\ UNCHANGED <<stepVars, snapVars, lastActionVars, captchaVars, _task_done,
                   _artifact_buffer, legacy, backend_call, snap_seq, pc, ev>>

\* The AssertOutcome scroll_by builds
ScrollOutcome(passed) ==
    [raised |-> FALSE, passed |-> passed,
     reason |-> IF passed THEN "" ELSE "scroll delta < min_delta_px", reason_code |-> ""]

\* scroll_by(dy, verify, label, required): url is what get_url() returns, shot whether
\* the backend delivers the frame of record_action, effective whether the scroll
\* metrics move by min_delta_px before timeout_s is over, traced whether the tracer
\* takes the verification event
ScrollBy(verify, label, required, url, shot, effective, traced) ==
    LET record == Record(label, required, ScrollOutcome(effective), {})
        captures == ~IsNone(_artifact_buffer) /\ Val(_artifact_buffer).capture_on_action
                    /\ shot
        \* add_frame raises once cleanup() has removed the temporary directory
        recorded == ~(captures /\ Val(_artifact_buffer).cleaned)
        buffer == IF IsNone(_artifact_buffer) THEN _artifact_buffer
                  ELSE LET stepped == [Val(_artifact_buffer) EXCEPT !.steps = @ + 1] IN
                       Some(IF captures /\ recorded THEN add_frame(stepped) ELSE stepped)
        persists == recorded /\ verify /\ traced /\ required /\ ~effective
        reason == PersistReason("scroll_failed", label)
    IN  /\ pc = "idle"
        /\ Len(_assertions_this_step) < MaxAssertions
        /\ ~IsNone(_artifact_buffer) => Val(_artifact_buffer).steps < MaxActions
        /\ _cached_url' = Some(url)
        /\ _last_action' = Some("scroll_by")
        /\ _assertions_this_step' =
             IF recorded /\ verify THEN Accumulate(_assertions_this_step, record, TRUE)
             ELSE _assertions_this_step
        /\ events' = IF recorded /\ verify /\ traced
                     THEN <<VerificationEvent("scroll", record)>> ELSE <<>>
        /\ _artifact_buffer' = IF persists THEN PersistFailure(buffer, reason) ELSE buffer
        /\ hist' = NoteFinal(hist,
                       Final("scroll", label, required, recorded /\ (verify => traced),
                             ~verify \/ effective,
                             IF recorded /\ verify THEN Accumulate(<<>>, record, TRUE)
                             ELSE <<>>,
                             IF persists THEN <<reason>> ELSE <<>>))
        /\ UNCHANGED <<stepVars, last_snapshot, _step_pre_snapshot, _step_pre_url,
                       _last_action_error, _last_action_outcome, _last_action_duration_ms,
                       _last_action_success, captchaVars, _task_done, legacy, backend_call, snap_seq,
                       pc, ev>>

\* a or b of Python, for optional strings: None and "" are falsy
Truthy(o) == ~IsNone(o) /\ Val(o) # ""
PyOr(a, b) == IF Truthy(a) THEN a ELSE b

\* the urls differ, empty or not
UrlsDiffer(pre_url, post_url) == pre_url # post_url
\* url_changed = bool(pre_url and post_url and str(pre_url) != str(post_url))
UrlChanged(pre_url, post_url) ==
    Truthy(pre_url) /\ Truthy(post_url) /\ Val(pre_url) # Val(post_url)

\* The step_end event: the fields of build_step_end_event the properties read
StepEndEvent(id, pre_url, post_url, assertions, verify_passed, url_changed) ==
    [type |-> "step_end", kind |-> "step_end", label |-> "", passed |-> verify_passed,
     reason_code |-> "", final |-> FALSE, step_id |-> id, pre_url |-> pre_url,
     post_url |-> post_url, assertions |-> assertions, url_changed |-> url_changed]

\* emit_step_end(verify_passed, verify_signals, post_url) and its alias end_step;
\* signal: verify_signals["url_changed"] if the caller put one there, current: what
\* get_url() returns (None: it raises), traced: the tracer takes the event
emit_step_end(verify_passed, signal, post_url_arg, current, traced) ==
    LET pre_snap == IF ~IsNone(_step_pre_snapshot) THEN _step_pre_snapshot
                    ELSE last_snapshot
        pre_url == PyOr(PyOr(PyOr(_step_pre_url,
                                  IF IsNone(pre_snap) THEN None ELSE Some(Val(pre_snap).url)),
                             _cached_url),
                        Some(""))
        fetched == IF ~IsNone(post_url_arg) THEN post_url_arg
                   ELSE IF ~IsNone(current) THEN current
                   ELSE PyOr(IF IsNone(last_snapshot) THEN None
                             ELSE Some(Val(last_snapshot).url),
                             _cached_url)
        post_url == PyOr(fetched, pre_url)
        url_changed == UrlChanged(pre_url, post_url)
        passed == IF ~IsNone(verify_passed) THEN Val(verify_passed)
                  ELSE RequiredPassed(_assertions_this_step)
        event == StepEndEvent(IF IsNone(step_id) THEN <<>> ELSE Val(step_id),
                              IF Truthy(pre_url) THEN Val(pre_url) ELSE "",
                              IF Truthy(post_url) THEN Val(post_url) ELSE "",
                              _assertions_this_step, passed,
                              IF IsNone(signal) THEN url_changed ELSE Val(signal))
    IN  /\ pc = "idle"
        /\ _cached_url' = IF IsNone(post_url_arg) /\ ~IsNone(current) THEN current
                          ELSE _cached_url
        /\ events' = IF traced THEN <<event>> ELSE <<>>
        /\ hist' = [hist EXCEPT !.end = EndCall(verify_passed, signal, post_url_arg, traced,
                                                step_id, _assertions_this_step)]
        /\ UNCHANGED <<stepVars, last_snapshot, _step_pre_snapshot, _step_pre_url,
                       lastActionVars, captchaVars, _assertions_this_step, _task_done,
                       _artifact_buffer, legacy, backend_call, snap_seq, pc, ev>>

----------------------------------------------------------------------------
(* AssertionHandle.eventually: the snapshot limit of each attempt *)

\* SnapshotOptions' default limit
DefaultLimit == 50
\* the upper end of SnapshotOptions.limit
LimitCeiling == 500

\* snapshot_limit_growth, a dict whose keys may be missing
Growth(apply_on, start_limit, step, max_limit) ==
    [apply_on |-> apply_on, start_limit |-> start_limit, step |-> step,
     max_limit |-> max_limit]

\* growth = snapshot_limit_growth or None: a dict without keys counts as no growth
EmptyDict(g) ==
    IsNone(g.apply_on) /\ IsNone(g.start_limit) /\ IsNone(g.step) /\ IsNone(g.max_limit)

\* growth_start, growth_step and growth_max once the defaults are resolved, for a growth
\* dict g, snapshot_kwargs["limit"] and the runtime's SnapshotOptions.limit
ResolveGrowth(g, kwargs_limit, options_limit) ==
    LET start == IF ~IsNone(g.start_limit) THEN Val(g.start_limit)
                 ELSE IF ~IsNone(kwargs_limit) THEN Val(kwargs_limit)
                 ELSE IF ~IsNone(options_limit) THEN Val(options_limit)
                 ELSE DefaultLimit
    IN  [apply_on |-> IF IsNone(g.apply_on) THEN "only_on_fail" ELSE Val(g.apply_on),
         start |-> start,
         step |-> IF IsNone(g.step) THEN Max(1, start) ELSE Val(g.step),
         max |-> IF IsNone(g.max_limit) THEN LimitCeiling ELSE Val(g.max_limit)]

\* _clamp_limit left out
NoClampLimit(n) == n
\* _clamp_limit
_clamp_limit(n) == IF n < 1 THEN 1 ELSE IF n > LimitCeiling THEN LimitCeiling ELSE n

\* _limit_for_attempt of the resolved growth r
_limit_for_attempt(r, attempt_idx_1based) ==
    LET base == r.start + r.step * Max(0, attempt_idx_1based - 1)
    IN  _clamp_limit(Min(r.max, base))

\* snapshot_limit of one attempt: growth (resolved, or None), the attempt's number, the
\* previous attempt's outcome and snapshot_kwargs["limit"]
SnapshotLimit(growth, attempt, last_outcome, kwargs_limit) ==
    IF IsNone(growth) THEN kwargs_limit
    ELSE LET r == Val(growth)
             apply == IF r.apply_on = "only_on_fail"
                      THEN attempt = 1 \/ (~IsNone(last_outcome) /\ ~Val(last_outcome).passed)
                      ELSE r.apply_on = "all"
         IN  Some(IF apply THEN _limit_for_attempt(r, attempt)
                  ELSE _clamp_limit(IF r.start = 0 THEN DefaultLimit ELSE r.start))

----------------------------------------------------------------------------
(* AssertionHandle.eventually: the vision provider's reply *)

Spaces == {" ", "\n", "\t"}

RECURSIVE LStrip(_)
LStrip(t) == IF Len(t) > 0 /\ t[1] \in Spaces THEN LStrip(Tail(t)) ELSE t
RECURSIVE RStrip(_)
RStrip(t) ==
    IF Len(t) > 0 /\ t[Len(t)] \in Spaces THEN RStrip(SubSeq(t, 1, Len(t) - 1)) ELSE t
\* str.strip()
Strip(t) == RStrip(LStrip(t))

LowerChar(c) ==
    CASE c = "Y" -> "y" [] c = "E" -> "e" [] c = "S" -> "s" [] c = "N" -> "n"
      [] c = "O" -> "o" [] OTHER -> c
\* str.lower()
Lower(t) == [i \in 1..Len(t) |-> LowerChar(t[i])]

\* str.startswith
StartsWith(t, prefix) == Len(t) >= Len(prefix) /\ SubSeq(t, 1, Len(prefix)) = prefix

\* text = (resp.content or "").strip().lower(); passed = text.startswith("yes")
VisionPassed(content) == StartsWith(Lower(Strip(content)), <<"y", "e", "s">>)

\* Replies of the provider: "YES", " yes\n", "NO", "no, yes", "ye" and an empty content
VisionReplies ==
    {<<"Y", "E", "S">>, <<" ", "y", "e", "s", "\n">>, <<"N", "O">>,
     <<"n", "o", ",", " ", "y", "e", "s">>, <<"y", "e">>, <<>>}

----------------------------------------------------------------------------
(* AssertionHandle.eventually: the retry loop *)

\* ticks one snapshot() call may take
MaxSnapDur == 2
\* ticks one predicate evaluation may take
MaxEvalDur == 1

\* the confidence gate left open
LowConfidenceNever(snapshot, min_confidence) == FALSE
\* min_confidence is not None and confidence is not None and confidence < min_confidence,
\* for the confidence of the runtime's last snapshot
LowConfidence(snapshot, min_confidence) ==
    /\ ~IsNone(min_confidence)
    /\ ~IsNone(snapshot)
    /\ ~IsNone(Val(snapshot).diag)
    /\ ~IsNone(Val(Val(snapshot).diag).confidence)
    /\ Val(Val(Val(snapshot).diag).confidence) < Val(min_confidence)

\* The outcome of an attempt stopped at the confidence gate
LowConfidenceOutcome ==
    [raised |-> FALSE, passed |-> FALSE, reason |-> "low confidence",
     reason_code |-> "snapshot_low_confidence"]

\* The final outcome of a call that ran out of snapshot attempts
ExhaustedOutcome ==
    [raised |-> FALSE, passed |-> FALSE, reason |-> "snapshot exhausted",
     reason_code |-> "snapshot_exhausted"]

\* The outcome of the vision fallback
VisionOutcome(passed) ==
    [raised |-> FALSE, passed |-> passed,
     reason |-> IF passed THEN "vision_fallback_yes" ELSE "vision_fallback_no",
     reason_code |-> IF passed THEN "vision_fallback_pass" ELSE "vision_fallback_fail"]

\* if snapshot_attempt > max_snapshot_attempts
SnapshotsExhaustedLate(snapshot_attempt, max_snapshot_attempts) ==
    snapshot_attempt > max_snapshot_attempts
\* if snapshot_attempt >= max_snapshot_attempts
SnapshotsExhausted(snapshot_attempt, max_snapshot_attempts) ==
    snapshot_attempt >= max_snapshot_attempts

\* the deadline never checked
DeadlineNever(now, deadline) == FALSE
\* if time.monotonic() > deadline
DeadlinePassedStrictly(now, deadline) == now > deadline
\* if time.monotonic() >= deadline
DeadlinePassed(now, deadline) == now >= deadline

\* The record of an attempt or of the final outcome of the running call
EvRecord(outcome, flags) ==
    Record(ev.args.label, ev.args.required, outcome, {"eventually"} \cup flags)

\* failure artifacts persisted whether or not the assertion is required
EvReasonAlways(prefix) == Some(PersistReason(prefix, ev.args.label))
\* The reason handed to _persist_failure_artifacts by a final failure of the running
\* call, when the assertion is required
EvReason(prefix) ==
    IF ev.args.required THEN Some(PersistReason(prefix, ev.args.label)) ELSE None

\* The records the call had accumulated before, followed by records
EvRecords(frame, records) ==
    SubSeq(_assertions_this_step, frame.base + 1, Len(_assertions_this_step)) \o records

\* eventually() returns result; records: the final record(s) the call accumulated on its
\* way out, emitted: the events it got out, reason: the reason failure artifacts are
\* persisted with, if they are
EvReturn(frame, result, records, emitted, reason) ==
    /\ _assertions_this_step' = _assertions_this_step \o records
    /\ events' = events \o emitted
    /\ _artifact_buffer' = IF IsNone(reason) THEN _artifact_buffer
                           ELSE PersistFailure(_artifact_buffer, Val(reason))
    /\ ev' = [frame EXCEPT !.status = "returned", !.result = result]
    /\ pc' = "idle"
    /\ hist' = NoteFinal(NoteRecords(hist, records),
                         Final("eventually", frame.args.label, frame.args.required, TRUE,
                               result, EvRecords(frame, records),
                               IF IsNone(reason) THEN <<>> ELSE <<Val(reason)>>))

\* an exception leaves eventually()
EvRaise(frame, records, emitted) ==
    /\ _assertions_this_step' = _assertions_this_step \o records
    /\ events' = events \o emitted
    /\ ev' = [frame EXCEPT !.status = "raised"]
    /\ pc' = "idle"
    /\ hist' = NoteFinal(NoteRecords(hist, records),
                         Final("eventually", frame.args.label, frame.args.required, FALSE,
                               FALSE, EvRecords(frame, records), <<>>))
    /\ UNCHANGED _artifact_buffer

\* await asyncio.sleep(poll_s), and on to the next attempt
EvSleep(frame, records, emitted) ==
    /\ _assertions_this_step' = _assertions_this_step \o records
    /\ events' = events \o emitted
    /\ ev' = [frame EXCEPT !.now = frame.now + frame.args.poll_s]
    /\ pc' = "ev_attempt"
    /\ hist' = NoteRecords(hist, records)
    /\ UNCHANGED _artifact_buffer

\* _record_outcome(record_in_step=True) of a final outcome and the return that follows
\* it; the tracer takes the event, or raises after the record was accumulated
EvFinal(frame, result, outcome, flags, reason) ==
    LET record == EvRecord(outcome, {"final"} \cup flags)
        records == Accumulate(<<>>, record, TRUE)
    IN  \/ EvReturn(frame, result, records, <<VerificationEvent("assert", record)>>, reason)
        \/ EvRaise(frame, records, <<>>)

\* The final snapshot_exhausted outcome; before: what the vision fallback accumulated
\* and emitted before it failed
EvExhausted(frame, before, emitted) ==
    LET record == EvRecord(ExhaustedOutcome, {"final", "exhausted"})
        records == before \o Accumulate(<<>>, record, TRUE)
    IN  \/ EvReturn(frame, FALSE, records,
                    emitted \o <<VerificationEvent("assert", record)>>,
                    EvReason("assert_eventually_failed"))
        \/ EvRaise(frame, records, emitted)

\* handle.eventually(...): deadline, counters and the growth defaults
Eventually(args) ==
    /\ pc = "idle"
    /\ Len(_assertions_this_step) < MaxAssertions
    /\ ev' = EvFrame(args,
                     IF IsNone(args.growth) \/ EmptyDict(Val(args.growth)) THEN None
                     ELSE Some(ResolveGrowth(Val(args.growth), args.kwargs_limit,
                                             Some(DefaultLimit))),
                     Len(_assertions_this_step))
    /\ pc' = "ev_attempt"
    /\ events' = <<>>
    /\ UNCHANGED <<stepVars, snapVars, lastActionVars, captchaVars, _assertions_this_step,
                   _task_done, _artifact_buffer, legacy, backend_call, snap_seq, hist>>

\* attempt += 1; the attempt's limit; await self.runtime.snapshot(**per_attempt_kwargs);
\* snapshot_attempt += 1
EvSnapshotTaking(D, durations) ==
    /\ pc = "ev_attempt"
    /\ LET attempt == ev.attempt + 1
           limit == SnapshotLimit(ev.growth, attempt, ev.last_outcome, ev.args.kwargs_limit)
           frame == [ev EXCEPT !.attempt = attempt, !.limits = Append(ev.limits, limit)]
       IN  \E o \in SnapshotOutcomes(D), d \in durations :
             /\ ApplySnapshot(o)
             /\ events' = events \o o.log
             /\ IF o.raised
                THEN /\ ev' = [frame EXCEPT !.status = "raised"]
                     /\ pc' = "idle"
                ELSE /\ ev' = [frame EXCEPT !.snapshot_attempt = ev.snapshot_attempt + 1,
                                            !.now = ev.now + d, !.snap_dur = d,
                                            !.eval_dur = 0, !.gate_at = ev.now + d]
                     /\ pc' = "ev_gate"
    /\ UNCHANGED <<stepVars, lastActionVars, _captcha_options, _assertions_this_step,
                   _task_done, _artifact_buffer, legacy, backend_call>>

\* the snapshot() of an attempt, taking up to MaxSnapDur ticks
EvSnapshot(D) == EvSnapshotTaking(D, 0..MaxSnapDur)

\* The attempt stops at the confidence gate: a snapshot_low_confidence event, then
\* exhaustion (with or without the vision fallback), the deadline, or the next poll
EvLowConfidence ==
    /\ pc = "ev_gate"
    /\ LowConfidence(last_snapshot, ev.args.min_confidence)
    /\ LET exhausted == SnapshotsExhausted(ev.snapshot_attempt,
                                           ev.args.max_snapshot_attempts)
           frame == [ev EXCEPT !.last_outcome = Some(LowConfidenceOutcome),
                               !.gated = ev.gated + 1,
                               !.exhausted = exhausted,
                               !.late = ~exhausted /\ ev.now >= ev.deadline,
                               !.low = ev.low \cup {Val(last_snapshot)}]
           attempt_event == VerificationEvent("assert", EvRecord(LowConfidenceOutcome, {}))
           recorded == Accumulate(<<>>, EvRecord(LowConfidenceOutcome, {}), FALSE)
       IN  \/ EvRaise(frame, recorded, <<>>)
           \/ /\ exhausted
              /\ ev.args.vision = "sighted"
              /\ _assertions_this_step' = _assertions_this_step \o recorded
              /\ events' = Append(events, attempt_event)
              /\ ev' = frame
              /\ pc' = "ev_vision"
              /\ hist' = NoteRecords(hist, recorded)
              /\ UNCHANGED _artifact_buffer
           \/ /\ exhausted
              /\ ev.args.vision # "sighted"
              /\ EvExhausted(frame, recorded, <<attempt_event>>)
           \/ /\ ~exhausted
              /\ DeadlinePassed(ev.now, ev.deadline)
              /\ LET record == EvRecord(LowConfidenceOutcome, {"final", "timeout"})
                     records == recorded \o Accumulate(<<>>, record, TRUE)
                 IN  \/ EvReturn(frame, FALSE, records,
                                 <<attempt_event, VerificationEvent("assert", record)>>,
                                 EvReason("assert_eventually_timeout"))
                     \/ EvRaise(frame, records, <<attempt_event>>)
           \/ /\ ~exhausted
              /\ ~DeadlinePassed(ev.now, ev.deadline)
              /\ EvSleep(frame, recorded, <<attempt_event>>)
    /\ UNCHANGED <<stepVars, snapVars, lastActionVars, captchaVars, _task_done, legacy, backend_call,
                   snap_seq>>

\* The vision fallback: a screenshot, the provider's reply, the final record; whatever
\* raises inside it is caught and the call goes on to the snapshot_exhausted outcome
EvVision ==
    /\ pc = "ev_vision"
    /\ LET frame == [ev EXCEPT !.vision_tried = TRUE] IN
       \/ \E failed \in {"screenshot", "provider"} :
            EvExhausted([frame EXCEPT !.vision_error = failed], <<>>, <<>>)
       \/ \E content \in VisionReplies :
            LET passed == VisionPassed(content)
                record == EvRecord(VisionOutcome(passed), {"final", "vision_fallback"})
                records == Accumulate(<<>>, record, TRUE)
                replied == [frame EXCEPT !.vision_reply = Some(content)]
            IN  \/ EvReturn(replied, passed, records, <<VerificationEvent("assert", record)>>,
                            IF passed THEN None ELSE EvReason("assert_eventually_failed"))
                \* the tracer raises on the record's event, after the record was accumulated
                \/ EvExhausted([replied EXCEPT !.vision_error = "record"], records, <<>>)
    /\ UNCHANGED <<stepVars, snapVars, lastActionVars, captchaVars, _task_done, legacy, backend_call,
                   snap_seq>>

\* The attempt passes the gate: the predicate is evaluated, its outcome emitted, and the
\* call returns on a pass or at the deadline, or sleeps
EvPredicateTaking(durations) ==
    /\ pc = "ev_gate"
    /\ ~LowConfidence(last_snapshot, ev.args.min_confidence)
    /\ \E d \in durations :
         LET outcome == PredicateOutcome(ev.args.kind, CtxUrl)
             now == ev.now + d
             frame == [ev EXCEPT !.last_outcome = Some(outcome), !.now = now,
                                 !.eval_dur = d,
                                 !.evaluated = ev.evaluated \cup {Val(last_snapshot)},
                                 !.late = ~outcome.passed /\ now >= ev.deadline]
             attempt_event == VerificationEvent("assert", EvRecord(outcome, {}))
             recorded == Accumulate(<<>>, EvRecord(outcome, {}), FALSE)
         IN  IF outcome.raised
             THEN EvRaise([ev EXCEPT !.now = now, !.eval_dur = d], <<>>, <<>>)
             ELSE \/ EvRaise(frame, recorded, <<>>)
                  \/ /\ outcome.passed
                     /\ LET record == EvRecord(outcome, {"final"})
                            records == recorded \o Accumulate(<<>>, record, TRUE)
                        IN  \/ EvReturn(frame, TRUE, records,
                                        <<attempt_event, VerificationEvent("assert", record)>>,
                                        None)
                            \/ EvRaise(frame, records, <<attempt_event>>)
                  \/ /\ ~outcome.passed
                     /\ DeadlinePassed(now, ev.deadline)
                     /\ LET record == EvRecord(outcome, {"final", "timeout"})
                            records == recorded \o Accumulate(<<>>, record, TRUE)
                        IN  \/ EvReturn(frame, FALSE, records,
                                        <<attempt_event, VerificationEvent("assert", record)>>,
                                        EvReason("assert_eventually_timeout"))
                            \/ EvRaise(frame, records, <<attempt_event>>)
                  \/ /\ ~outcome.passed
                     /\ ~DeadlinePassed(now, ev.deadline)
                     /\ EvSleep(frame, recorded, <<attempt_event>>)
    /\ UNCHANGED <<stepVars, snapVars, lastActionVars, captchaVars, _task_done, legacy, backend_call,
                   snap_seq>>

\* the evaluation of an attempt, taking up to MaxEvalDur ticks
EvPredicate == EvPredicateTaking(0..MaxEvalDur)

----------------------------------------------------------------------------
(* One step of an agent: the calls between two begin_step calls *)

\* The page of the step runs: a blocking challenge
StepContents == {Content("A", Some(Diagnostics(Some(9), Some(CaptchaBframe9))))}

StepBeginCall == \E goal \in Goals : BeginStep(goal, None, TRUE)

\* the step runs call snapshot() once
StepSnapshotCall == snap_seq = 0 /\ Snapshot(StepContents)

StepCaptchaOptionsCall == SetCaptchaOptions(CaptchaOptions("callback", TRUE, TRUE))

EnableFailureArtifactsCall == EnableFailureArtifacts("onFail", TRUE)

RecordActionCall == \E shot \in BOOLEAN : RecordAction("click", shot)

NoteActionResultCall == NoteActionResult(FALSE)

InitStep == Init /\ ~legacy

NextStep ==
    \/ StepBeginCall
    \/ StepSnapshotCall
    \/ StepCaptchaOptionsCall
    \/ EnableFailureArtifactsCall
    \/ RecordActionCall
    \/ NoteActionResultCall
    \/ AssertDoneCall

SpecStep == InitStep /\ [][NextStep]_vars

----------------------------------------------------------------------------
(* Runs of eventually() *)

\* Pages of the eventually runs: a page without diagnostics, the awaited page seen with
\* low and with high confidence
EvContents ==
    {Content("A", None), Content("B", Some(Diagnostics(Some(1), None))),
     Content("B", Some(Diagnostics(Some(9), None)))}

\* timeout_s and poll_s of the runs, in ticks
Timings == {<<0, 1>>, <<2, 1>>, <<2, 2>>}

\* min_confidence (in tenths), max_snapshot_attempts and the vision provider: none, one
\* that does not support vision ("blind"), one that does ("sighted")
Gatings ==
    {<<None, 1, "none">>}
    \cup {<<Some(7), m, v>> : m \in {1, 2}, v \in {"none", "blind", "sighted"}}

\* the runs make one eventually() call
EventuallyCall ==
    /\ ev.status = "none"
    /\ \E t \in Timings, g \in Gatings, kind \in {"url_is_B", "never", "raises"},
          required \in BOOLEAN :
         Eventually(EvArgs(t[1], t[2], g[1], g[2], None, None, g[3], kind, "check",
                           required))

\* and at most one assertion before it
EvAssertCall == ev.status = "none" /\ assert_("never", "earlier", FALSE, TRUE)

EvSnapshotCall == EvSnapshot(EvContents)

InitEventually == Init /\ ~legacy

NextEventually ==
    \/ EvAssertCall
    \/ EventuallyCall
    \/ EvSnapshotCall
    \/ EvLowConfidence
    \/ EvPredicate
    \/ EvVision

SpecEventually == InitEventually /\ [][NextEventually]_vars

----------------------------------------------------------------------------
(* Runs of eventually() with snapshot_limit_growth *)

\* Pages of the growth runs: the awaited page is never seen with confidence
GrowthContents ==
    {Content("A", Some(Diagnostics(Some(9), None))),
     Content("B", Some(Diagnostics(Some(1), None)))}

GrowthDicts ==
    {Growth(apply_on, start_limit, step, max_limit) :
        apply_on \in {None, Some("all"), Some("only_on_fail"), Some("off")},
        start_limit \in {None, Some(-3), Some(0), Some(1), Some(499), Some(600)},
        step \in {None, Some(-2), Some(0), Some(1), Some(300)},
        max_limit \in {None, Some(-1), Some(10), Some(500), Some(700)}}

\* the runs make one eventually() call, with a growth dict
GrowthEventuallyCall ==
    /\ ev.status = "none"
    /\ \E growth \in GrowthDicts, kwargs_limit \in {None, Some(20)} :
         Eventually(EvArgs(2, 1, Some(7), 3, Some(growth), kwargs_limit, "none",
                           "url_is_B", "check", FALSE))

GrowthSnapshotCall == EvSnapshot(GrowthContents)

NextGrowth ==
    \/ GrowthEventuallyCall
    \/ GrowthSnapshotCall
    \/ EvLowConfidence
    \/ EvPredicate

SpecGrowth == InitEventually /\ [][NextGrowth]_vars

----------------------------------------------------------------------------
(* The assertions of a step *)

AssertBeginCall == \E goal \in {"g1"} : BeginStep(goal, None, TRUE)

FlushAssertionsCall == FlushAssertions

ScrollByCall ==
    \E verify \in BOOLEAN, required \in BOOLEAN, effective \in BOOLEAN, traced \in BOOLEAN :
        ScrollBy(verify, "scroll_effective", required, "A", TRUE, effective, traced)

InitAssert == Init /\ ~legacy

NextAssert ==
    \/ AssertBeginCall
    \/ AssertOnceCall
    \/ FlushAssertionsCall
    \/ ScrollByCall

SpecAssert == InitAssert /\ [][NextAssert]_vars

----------------------------------------------------------------------------
(* The end of a step: the calls up to emit_step_end *)

\* Pages of the step-end runs
EndContents == {Content("A", None), Content("B", None)}

\* the runs begin one step and call snapshot() once
EndBeginCall == ~hist.end.called /\ hist.begins = 0 /\ BeginStep("g1", None, TRUE)

EndSnapshotCall == ~hist.end.called /\ snap_seq = 0 /\ Snapshot(EndContents)

EndAssertCall ==
    /\ ~hist.end.called
    /\ \E kind \in {"always", "never"}, required \in BOOLEAN :
         assert_(kind, "check", required, TRUE)

\* the runs end with emit_step_end
EmitStepEndCall ==
    /\ ~hist.end.called
    /\ \E verify_passed \in {None, Some(TRUE), Some(FALSE)},
          signal \in {None, Some(TRUE), Some(FALSE)},
          post_url \in {None, Some(""), Some("A"), Some("B")},
          current \in {None, Some("A"), Some("B")},
          traced \in BOOLEAN :
            emit_step_end(verify_passed, signal, post_url, current, traced)

NextStepEnd ==
    \/ EndBeginCall
    \/ EndSnapshotCall
    \/ EndAssertCall
    \/ EmitStepEndCall

SpecStepEnd == InitAssert /\ [][NextStepEnd]_vars

----------------------------------------------------------------------------
(* Failure artifacts of a run: assertions with the buffer enabled, then finalize_run *)

PersistEnableCall ==
    \E persist_mode \in {"onFail", "always"} : EnableFailureArtifacts(persist_mode, TRUE)

\* one assert_ or scroll_by comes before the eventually() call of the run
PersistAssertCall ==
    /\ ev.status = "none"
    /\ hist.fin.op = "none"
    /\ \E kind \in {"always", "never"}, required \in BOOLEAN :
         assert_(kind, "check", required, TRUE)

PersistScrollCall ==
    /\ ev.status = "none"
    /\ hist.fin.op = "none"
    /\ \E verify \in BOOLEAN, required \in BOOLEAN, effective \in BOOLEAN :
         ScrollBy(verify, "scroll_effective", required, "A", TRUE, effective, TRUE)

\* the runs make one eventually() call
PersistEventuallyCall ==
    /\ ev.status = "none"
    /\ \E g \in {<<None, 1, "none">>, <<Some(7), 1, "none">>, <<Some(7), 1, "sighted">>},
          kind \in {"url_is_B", "never"}, required \in BOOLEAN :
         Eventually(EvArgs(0, 1, g[1], g[2], None, None, g[3], kind, "check", required))

FinalizeRunCall == \E success \in BOOLEAN : FinalizeRun(success)

\* the clock of the persist runs stands still
PersistSnapshotCall == snap_seq = 0 /\ EvSnapshotTaking(EvContents, {0})

PersistPredicate == EvPredicateTaking({0})

NextPersist ==
    \/ PersistEnableCall
    \/ PersistAssertCall
    \/ PersistScrollCall
    \/ PersistEventuallyCall
    \/ PersistSnapshotCall
    \/ EvLowConfidence
    \/ PersistPredicate
    \/ EvVision
    \/ FinalizeRunCall

SpecPersist == InitAssert /\ [][NextPersist]_vars

----------------------------------------------------------------------------

Next ==
    \/ BeginStepCall
    \/ SnapshotCall
    \/ SetCaptchaOptionsCall

Spec == Init /\ [][Next]_vars

----------------------------------------------------------------------------
(* Step identity *)

DigitVal(c) ==
    CASE c = "0" -> 0 [] c = "1" -> 1 [] c = "2" -> 2 [] c = "3" -> 3 [] c = "4" -> 4
      [] c = "5" -> 5 [] c = "6" -> 6 [] c = "7" -> 7 [] c = "8" -> 8 [] c = "9" -> 9
      [] OTHER -> -1

\* t is a decimal numeral without sign or leading zero
IsNumeral(t) ==
    /\ Len(t) >= 1
    /\ \A i \in 1..Len(t) : DigitVal(t[i]) >= 0
    /\ Len(t) > 1 => t[1] # "0"

RECURSIVE NumeralValue(_)
NumeralValue(t) ==
    IF Len(t) = 0 THEN 0
    ELSE 10 * NumeralValue(SubSeq(t, 1, Len(t) - 1)) + DigitVal(t[Len(t)])

\* id reads "step-" followed by the decimal writing of n
Names(id, n) ==
    /\ Len(id) > 5
    /\ SubSeq(id, 1, 5) = <<"s", "t", "e", "p", "-">>
    /\ LET t == SubSeq(id, 6, Len(id)) IN
       IF t[1] = "-"
       THEN /\ IsNumeral(Tail(t)) /\ NumeralValue(Tail(t)) > 0
            /\ n = 0 - NumeralValue(Tail(t))
       ELSE IsNumeral(t) /\ n = NumeralValue(t)

\* C7: after every begin_step, with or without an explicit index, step_id is "step-"
\* followed by str(step_index) and is what the call returned; without an explicit index
\* the first begin_step of a runtime yields "step-0" and every further one raises
\* step_index by exactly 1
StepIdNamesStepIndex ==
    hist.begins > 0 =>
        /\ ~IsNone(step_id)
        /\ Names(Val(step_id), step_index)
        /\ hist.begin_ret = step_id
        /\ hist.last_begin = "auto" => step_index = hist.prev_index + 1
        /\ hist.last_begin = "auto" /\ hist.begins = 1 =>
               step_id = Some(<<"s", "t", "e", "p", "-", "0">>)

\* an explicit step 2 was followed by a begin_step without an index
StepIdWitness ==
    /\ hist.begins = 2
    /\ hist.last_begin = "auto"
    /\ hist.prev_index = 2
    /\ step_id = Some(<<"s", "t", "e", "p", "-", "3">>)

\* C8: over any sequence of begin_step calls on one runtime, explicit indexes included,
\* each step's step_index is strictly greater than the previous step's
StepIndexStrictlyMonotonic ==
    hist.begins >= 2 => step_index > hist.prev_index

----------------------------------------------------------------------------
(* The frame of begin_step *)

\* C9: begin_step empties the accumulated assertions, unsets pre_snapshot, pre_url and
\* the last-action fields, sets the goal it was given, and leaves last_snapshot, the
\* cached URL, the task_done flag, the CAPTCHA retry counter and the artifact buffer as
\* they were; right after it required_assertions_passed() is true
BeginStepFrame ==
    [][hist'.begins = hist.begins + 1 =>
        /\ _assertions_this_step' = <<>>
        /\ _step_pre_snapshot' = None
        /\ _step_pre_url' = None
        /\ _step_goal' = hist'.begin_goal
        /\ ~IsNone(_step_goal')
        /\ _last_action' = None
        /\ _last_action_error' = None
        /\ _last_action_outcome' = None
        /\ _last_action_duration_ms' = None
        /\ _last_action_success' = None
        /\ last_snapshot' = last_snapshot
        /\ _cached_url' = _cached_url
        /\ _task_done' = _task_done
        /\ _captcha_retry_count' = _captcha_retry_count
        /\ _artifact_buffer' = _artifact_buffer
        /\ RequiredPassed(_assertions_this_step')]_vars

\* begin_step has just cleared a step that had a failed required assertion, a
\* pre-snapshot and a failed action, in a run with a snapshot, a finished task, a
\* CAPTCHA retry and persisted artifacts
BeginStepFrameWitness ==
    /\ hist.reset_nonempty
    /\ events = <<StepStartEvent>>
    /\ _assertions_this_step = <<>>
    /\ ~IsNone(last_snapshot)
    /\ ~IsNone(_cached_url)
    /\ _task_done
    /\ _captcha_retry_count > 0
    /\ ~IsNone(_artifact_buffer)
    /\ Val(_artifact_buffer).persisted

----------------------------------------------------------------------------
(* pre_snapshot and last_snapshot *)

\* C10 as stated: the first snapshot that snapshot() returned in the step is
\* pre_snapshot and its url pre_url, until the next begin_step; every returned snapshot
\* is last_snapshot, the most recently acquired one
PreSnapshotIsFirstReturned ==
    /\ ~IsNone(hist.first_returned) =>
           /\ _step_pre_snapshot = hist.first_returned
           /\ _step_pre_url = Some(Val(hist.first_returned).url)
    /\ hist.last_call = "returned" => last_snapshot = hist.last_ret
    /\ last_snapshot = hist.last_acquired

\* C10: the first snapshot the backend produced in the step is pre_snapshot and its url
\* pre_url, until the next begin_step, whether or not the snapshot() call that acquired
\* it returned; last_snapshot is the most recently acquired snapshot, and it is what a
\* snapshot() call that returns hands back
PreSnapshotIsFirstAcquired ==
    /\ _step_pre_snapshot = hist.first_acquired
    /\ _step_pre_url = IF IsNone(hist.first_acquired) THEN None
                       ELSE Some(Val(hist.first_acquired).url)
    /\ last_snapshot = hist.last_acquired
    /\ hist.last_call = "returned" => last_snapshot = hist.last_ret

\* a later snapshot() of the step returned another page than the one the step's first
\* call acquired before it raised
PreSnapshotWitness ==
    /\ ~IsNone(hist.first_acquired)
    /\ ~IsNone(hist.first_returned)
    /\ hist.first_returned # hist.first_acquired
    /\ hist.last_call = "returned"
    /\ Val(last_snapshot).id > Val(hist.first_returned).id
    /\ Val(hist.first_acquired).url # Val(last_snapshot).url

----------------------------------------------------------------------------
(* eventually(): what a call accumulates and returns *)

\* The records the running or last eventually() call added to the step's list
Added == SubSeq(_assertions_this_step, ev.base + 1, Len(_assertions_this_step))

\* The snapshot reports a confidence below the threshold the call was given
BelowThreshold(s, min_confidence) ==
    /\ min_confidence # <<>>
    /\ s.diag # <<>>
    /\ s.diag[1].confidence # <<>>
    /\ s.diag[1].confidence[1] < min_confidence[1]

\* The reply, without the white space around it and in any case, begins with "yes"
SaysYes(content) ==
    content \in {<<"Y", "E", "S">>, <<" ", "y", "e", "s", "\n">>}

\* C1: every eventually() call that returns has appended exactly one record to the
\* step's assertions, the final outcome, whose passed field is the value returned;
\* while the call is under way (attempts failing or stopped for low confidence) nothing
\* is appended
EventuallyAccumulatesOnce ==
    /\ ev.status = "running" => Added = <<>>
    /\ ev.status = "returned" =>
           /\ Len(Added) = 1
           /\ Added[1].final
           /\ Added[1].eventually
           /\ Added[1].passed = ev.result

\* C2: with min_confidence set and no provider that supports vision, a snapshot below
\* min_confidence taken when the call's snapshots have reached max_snapshot_attempts
\* makes the call, if it returns, return false at once, not at the deadline, with the
\* single accumulated final record carrying reason_code snapshot_exhausted, the
\* predicate not having been evaluated on that snapshot; the call never goes on to
\* another attempt, and the fallback is entered only with a provider that supports vision
SnapshotExhaustedEndsCall ==
    LET low == last_snapshot # <<>> /\ BelowThreshold(last_snapshot[1], ev.args.min_confidence)
        spent == ev.snapshot_attempt >= ev.args.max_snapshot_attempts
    IN  /\ ev.status = "returned" /\ ev.args.vision # "sighted" /\ low /\ spent =>
               /\ ~ev.result
               /\ Len(Added) = 1
               /\ Added[1].reason_code = "snapshot_exhausted"
               /\ Added[1].final /\ Added[1].exhausted /\ ~Added[1].passed
               /\ last_snapshot[1] \notin ev.evaluated
               /\ ev.now = ev.gate_at
        /\ pc = "ev_attempt" /\ ev.attempt > 0 /\ low => ~spent
        /\ pc = "ev_vision" => ev.args.vision = "sighted"

\* the awaited page came back with low confidence on the second and last allowed
\* snapshot, well before the deadline, and the call returned
SnapshotExhaustedWitness ==
    /\ ev.status = "returned"
    /\ ev.args.vision = "blind"
    /\ ev.args.kind = "url_is_B"
    /\ ev.args.max_snapshot_attempts = 2
    /\ ev.snapshot_attempt = 2
    /\ last_snapshot # <<>>
    /\ last_snapshot[1].url = "B"
    /\ BelowThreshold(last_snapshot[1], ev.args.min_confidence)
    /\ ev.now < ev.deadline
    /\ ev.base = 1

\* the events of the call that report an attempt stopped for low confidence
LowConfidenceEvents ==
    {i \in 1..Len(events) :
        /\ events[i].type = "verification"
        /\ events[i].reason_code = "snapshot_low_confidence"
        /\ ~events[i].final
        /\ ~events[i].passed}

\* C3: with min_confidence set the predicate is never evaluated against a snapshot whose
\* confidence is below it; each such attempt emits a non-final verification event with
\* reason_code snapshot_low_confidence; and a call returns true only after the predicate
\* passed on a snapshot that is not below min_confidence (or has no diagnostics), or
\* after a vision reply of yes
ConfidenceGating ==
    /\ \A s \in ev.evaluated : ~BelowThreshold(s, ev.args.min_confidence)
    /\ \A s \in ev.low : BelowThreshold(s, ev.args.min_confidence)
    /\ pc \in {"ev_attempt", "ev_vision"} \/ ev.status = "returned" =>
           /\ Cardinality(LowConfidenceEvents) = ev.gated
           /\ ev.gated + Cardinality(ev.evaluated) = ev.snapshot_attempt
    /\ ev.status = "returned" /\ ev.result =>
           \/ \E s \in ev.evaluated :
                /\ ev.args.kind = "url_is_B" /\ s.url = "B"
                /\ ~BelowThreshold(s, ev.args.min_confidence)
           \/ ev.vision_reply # <<>> /\ SaysYes(ev.vision_reply[1])

\* the awaited page was first seen with low confidence and not acted on, then seen with
\* high confidence, and the call returned true
ConfidenceGatingWitness ==
    /\ ev.status = "returned"
    /\ ev.result
    /\ ev.gated = 1
    /\ Cardinality(ev.evaluated) = 1
    /\ \E s \in ev.low : s.url = "B"
    /\ Len(Added) = 1

----------------------------------------------------------------------------
(* eventually(): the deadline *)

\* No attempt of the call saw the predicate pass
NeverPassed == ev.last_outcome = <<>> \/ ~ev.last_outcome[1].passed

\* The call ended with a final timeout record and returned false
EndedAtDeadline ==
    /\ ~ev.result
    /\ Len(Added) = 1
    /\ Added[1].final /\ Added[1].timeout /\ ~Added[1].passed

\* Once a deadline check has found now >= deadline no further attempt is under way
NoAttemptAfterDeadline == ev.late => ev.status \in {"returned", "raised"}

\* C4 as stated: a call whose predicate never passes takes at most timeout_s + poll_s +
\* one predicate evaluation, ends with a final timeout record and returns false, and
\* starts no attempt after a deadline check found now >= deadline
DeadlineBoundsEveryRun ==
    /\ ev.status = "returned" /\ NeverPassed =>
           /\ ev.now <= ev.args.timeout_s + ev.args.poll_s + ev.eval_dur
           /\ EndedAtDeadline
    /\ NoAttemptAfterDeadline

\* C4: a call whose predicate never passes and that does not run out of snapshot
\* attempts takes, if it returns, at most timeout_s + poll_s + the last snapshot
\* acquisition + the last predicate evaluation, ends with a final timeout record and
\* returns false; no attempt is started after a deadline check found now >= deadline
DeadlineBoundsUnexhaustedRun ==
    /\ ev.status = "returned" /\ NeverPassed /\ ~ev.exhausted =>
           /\ ev.now <= ev.args.timeout_s + ev.args.poll_s + ev.snap_dur + ev.eval_dur
           /\ EndedAtDeadline
    /\ NoAttemptAfterDeadline

\* a call timed out later than timeout_s + poll_s + one predicate evaluation, its last
\* snapshot having been slow
DeadlineWitness ==
    /\ ev.status = "returned"
    /\ NeverPassed
    /\ ~ev.exhausted
    /\ ev.late
    /\ ev.attempt >= 2
    /\ ev.now > ev.args.timeout_s + ev.args.poll_s + ev.eval_dur
    /\ EndedAtDeadline

----------------------------------------------------------------------------
(* eventually(): the vision fallback *)

\* C5: the fallback is entered only when the snapshots are exhausted and the provider
\* supports vision; a call that got a reply returns true iff the reply, trimmed and
\* lower-cased, starts with "yes", and that outcome is the single final record it
\* accumulated, marked vision_fallback; if the screenshot or the provider raised, the
\* call returns false with the single record snapshot_exhausted
VisionFallbackDecides ==
    /\ pc = "ev_vision" \/ ev.vision_tried =>
           ev.exhausted /\ ev.args.vision = "sighted"
    /\ ev.status = "returned" /\ ev.vision_reply # <<>> =>
           /\ ev.result = SaysYes(ev.vision_reply[1])
           /\ Len(Added) = 1
           /\ Added[1].vision_fallback /\ Added[1].final
           /\ Added[1].passed = ev.result
    /\ ev.status = "returned" /\ ev.vision_error \in {"screenshot", "provider"} =>
           /\ ~ev.result
           /\ Len(Added) = 1
           /\ Added[1].reason_code = "snapshot_exhausted"

----------------------------------------------------------------------------
(* eventually(): snapshot_limit_growth *)

\* min(max_limit, start_limit + step*(k-1)), clamped into [1, 500]
GrownLimit(start_limit, step, max_limit, k) ==
    LET grown == start_limit + step * (k - 1)
        capped == IF grown < max_limit THEN grown ELSE max_limit
    IN  IF capped < 1 THEN 1 ELSE IF capped > 500 THEN 500 ELSE capped

\* C6: with a growth dict that gives start_limit, step and max_limit, and apply_on all
\* or only_on_fail, the k-th snapshot of the call is given the limit
\* min(max_limit, start_limit + step*(k-1)) clamped into [1, 500]
SnapshotLimitGrows ==
    LET g == ev.args.growth IN
    (/\ g # <<>>
     /\ g[1].apply_on \in {<<"all">>, <<"only_on_fail">>}
     /\ g[1].start_limit # <<>> /\ g[1].step # <<>> /\ g[1].max_limit # <<>>)
    => \A k \in 1..Len(ev.limits) :
           /\ ev.limits[k] # <<>>
           /\ ev.limits[k][1] = GrownLimit(g[1].start_limit[1], g[1].step[1],
                                           g[1].max_limit[1], k)
           /\ ev.limits[k][1] \in 1..500

\* three attempts that each failed grew the limit from 1 over 301 to the ceiling
SnapshotLimitWitness ==
    /\ ev.args.growth # <<>>
    /\ ev.args.growth[1].apply_on = <<"only_on_fail">>
    /\ ev.args.growth[1].start_limit = <<1>>
    /\ ev.args.growth[1].step = <<300>>
    /\ ev.args.growth[1].max_limit = <<700>>
    /\ ev.limits = << <<1>>, <<301>>, <<500>> >>
    /\ ev.gated >= 1

----------------------------------------------------------------------------
(* Required assertions gate the step *)

\* C11: at every point of a step required_assertions_passed() is false iff a record
\* with required=true and passed=false was accumulated since the last begin_step (or
\* flush_assertions); accumulating a non-required record never changes its value, a
\* failed non-required assertion leaves the next assertion free to be evaluated, and
\* once false it stays false until the next begin_step or flush_assertions
RequiredAssertionsGate ==
    /\ [](RequiredPassed(_assertions_this_step) <=> ~hist.req_failed)
    /\ []((/\ pc = "idle"
           /\ Len(_assertions_this_step) \in 1..(MaxAssertions - 1)
           /\ ~_assertions_this_step[Len(_assertions_this_step)].passed
           /\ ~_assertions_this_step[Len(_assertions_this_step)].required)
          => ENABLED assert_("always", "check", FALSE, TRUE))
    /\ [][/\ (/\ Len(_assertions_this_step') = Len(_assertions_this_step) + 1
              /\ ~_assertions_this_step'[Len(_assertions_this_step')].required)
             => (RequiredPassed(_assertions_this_step')
                   <=> RequiredPassed(_assertions_this_step))
          /\ (~RequiredPassed(_assertions_this_step)
                /\ RequiredPassed(_assertions_this_step'))
             => (hist'.begins # hist.begins \/ hist'.flushes # hist.flushes)]_vars

\* a required assertion failed after a non-required one had failed and been followed by
\* a further evaluation
RequiredGateWitness ==
    /\ Len(_assertions_this_step) = 2
    /\ ~_assertions_this_step[1].required /\ ~_assertions_this_step[1].passed
    /\ _assertions_this_step[2].required /\ ~_assertions_this_step[2].passed
    /\ ~RequiredPassed(_assertions_this_step)
    /\ hist.flushes = 1

----------------------------------------------------------------------------
(* Failure artifacts are persisted for required final failures *)

\* The reason the claim gives for the final failure of a call
ExpectedReason(fin) ==
    LET last == fin.records[Len(fin.records)] IN
    CASE fin.op = "assert" -> "assert_failed:" \o fin.label
      [] fin.op = "scroll" -> "scroll_failed:" \o fin.label
      [] fin.op = "eventually" /\ last.timeout -> "assert_eventually_timeout:" \o fin.label
      [] fin.op = "eventually" /\ (last.exhausted \/ last.vision_fallback) ->
           "assert_eventually_failed:" \o fin.label

\* C12: an assertion call that returns hands a reason to failure-artifact persistence
\* iff the assertion is required and its final outcome failed, and then exactly once:
\* assert_failed:<label> for assert_/once, assert_eventually_timeout:<label> for an
\* eventually timeout, assert_eventually_failed:<label> for exhaustion or a vision NO,
\* scroll_failed:<label> for a scroll_by timeout; a buffer that had not persisted then
\* holds a failure bundle with that reason; passing and non-required outcomes persist
\* nothing, and no step inside an eventually() call that goes on touches the buffer
FailurePersistence ==
    /\ [](hist.fin.returned =>
            hist.fin.reasons = IF hist.fin.required /\ ~hist.fin.result
                               THEN <<ExpectedReason(hist.fin)>> ELSE <<>>)
    /\ [][/\ pc' # "idle" => _artifact_buffer' = _artifact_buffer
          /\ (/\ _artifact_buffer # <<>>
              /\ _artifact_buffer' # <<>>
              /\ Len(_artifact_buffer'[1].bundles) > Len(_artifact_buffer[1].bundles))
             => LET bundle == _artifact_buffer'[1].bundles[Len(_artifact_buffer'[1].bundles)]
                IN  \/ bundle.reason \in {"success", "finalize_failure"}
                    \/ /\ hist'.fin.returned /\ hist'.fin.required /\ ~hist'.fin.result
                       /\ bundle.status = "failure"
                       /\ bundle.reason = ExpectedReason(hist'.fin)
          /\ (/\ _artifact_buffer # <<>>
              /\ ~_artifact_buffer[1].persisted
              /\ Len(_assertions_this_step') > Len(_assertions_this_step)
              /\ hist'.fin.returned /\ hist'.fin.required /\ ~hist'.fin.result)
             => /\ _artifact_buffer'[1].persisted
                /\ _artifact_buffer'[1].reason = ExpectedReason(hist'.fin)]_vars

\* a required eventually() timed out after an assertion that was not required had
\* failed, and the bundle carries the timeout reason
FailurePersistenceWitness ==
    /\ hist.fin.op = "eventually"
    /\ hist.fin.returned /\ hist.fin.required /\ ~hist.fin.result
    /\ Len(_assertions_this_step) = 2
    /\ ~_assertions_this_step[1].passed /\ ~_assertions_this_step[1].required
    /\ _assertions_this_step[2].timeout
    /\ _artifact_buffer # <<>>
    /\ Len(_artifact_buffer[1].bundles) = 1
    /\ _artifact_buffer[1].bundles[1].reason = "assert_eventually_timeout:check"

----------------------------------------------------------------------------
(* The step_end event *)

\* What a step_end event must carry besides url_changed, and what the call must leave
StepEndCarries(e) ==
    /\ e.type = "step_end"
    /\ e.step_id = IF step_id = <<>> THEN <<>> ELSE step_id[1]
    /\ e.assertions = _assertions_this_step
    /\ \A i \in 1..Len(e.assertions) :
           e.assertions[i].eventually => e.assertions[i].final
    /\ e.passed = IF hist.end.verify_passed # <<>> THEN hist.end.verify_passed[1]
                  ELSE \A i \in 1..Len(_assertions_this_step) :
                          _assertions_this_step[i].required
                              => _assertions_this_step[i].passed
    /\ _assertions_this_step = hist.end.assertions
    /\ step_id = hist.end.step_id

\* The urls of the event are both non-empty and differ
UrlsChanged(e) == e.pre_url # "" /\ e.post_url # "" /\ e.pre_url # e.post_url

----------------------------------------------------------------------------
(* The CAPTCHA interrupt of snapshot() *)

\* The last snapshot() call got a snapshot from the page, under the options now set
SnapshotCallDone ==
    /\ hist.call.n > 0
    /\ ~hist.just_set
    /\ ~IsNone(_captcha_options)

\* The detection the first snapshot of the last call carried, if any
FirstCaptcha ==
    LET diag == Val(hist.call.first).diag IN
    IF IsNone(diag) THEN None ELSE Val(diag).captcha

CaptchaEvents == {e \in SeqToSet(events) : e.kind = "captcha"}

\* C14: with policy abort and min_confidence 0.7, a snapshot reporting detected=true,
\* confidence 0.9 and the single iframe hit ".../recaptcha/api2/anchor" makes snapshot()
\* emit captcha_detected, then captcha_policy_abort, and raise captcha_policy_abort
\* instead of returning the snapshot.
CaptchaAnchorAborts ==
    (/\ SnapshotCallDone
     /\ ~legacy
     /\ Val(_captcha_options).policy = "abort"
     /\ Val(_captcha_options).min_confidence = 7
     /\ FirstCaptcha = Some(CaptchaAnchor9))
    => /\ hist.call.raised
       /\ hist.call.reason = "captcha_policy_abort"
       /\ events = <<CaptchaEvent("captcha_detected"), CaptchaEvent("captcha_policy_abort")>>

\* The cases the detection rule is to let through, told from the evidence itself
GenericTokens == {"captcha", "recaptcha"}

NoPrimaryHit(evidence) ==
    /\ evidence.iframe_src_hits = <<>>
    /\ evidence.url_hits = <<>>
    /\ evidence.text_hits = <<>>

OnlyGenericHits(evidence) ==
    LET hits == evidence.iframe_src_hits \o evidence.url_hits
                \o evidence.text_hits \o evidence.selector_hits
    IN  /\ \A i \in 1..Len(hits) :
              /\ KeywordsIn(hits[i]) # {}
              /\ KeywordsIn(hits[i]) \subseteq GenericTokens
        /\ JoinedKeywords(hits) \subseteq GenericTokens

NonBlockingCase(captcha) ==
    \/ captcha.confidence < Val(_captcha_options).min_confidence
    \/ /\ ~IsNone(captcha.evidence)
       /\ \/ NoPrimaryHit(Val(captcha.evidence))
          \/ OnlyGenericHits(Val(captcha.evidence))

\* C15: a detection whose evidence has no iframe, url or text hit, or whose hits carry
\* only generic captcha/recaptcha tokens and no strong phrase or token, or whose
\* confidence is below min_confidence, is not blocking: snapshot() emits no captcha
\* event, invokes no handler and returns the snapshot it took.
NonBlockingDetectionReturned ==
    (/\ SnapshotCallDone
     /\ ~IsNone(FirstCaptcha)
     /\ Val(FirstCaptcha).detected
     /\ NonBlockingCase(Val(FirstCaptcha)))
    => /\ ~hist.call.raised
       /\ CaptchaEvents = {}
       /\ hist.call.handled = 0
       /\ hist.call.n = 1
       /\ hist.last_ret = hist.call.first
       /\ last_snapshot = hist.call.first

\* A runtime with a handler let a passive badge through
NonBlockingWitness ==
    /\ SnapshotCallDone
    /\ ~legacy
    /\ Val(_captcha_options).handler
    /\ FirstCaptcha = Some(CaptchaBadge9)
    /\ ~hist.call.raised
    /\ hist.last_ret = hist.call.first

\* C16: once options are set, a snapshot() call returns a snapshot the detection rule
\* finds blocking only after the policy was applied to it (captcha_detected emitted and
\* a resolution acted upon), however the runtime was constructed.
BlockingNeverReturnedUnhandled ==
    (/\ SnapshotCallDone
     /\ ~hist.call.raised
     /\ _is_captcha_detected(Val(hist.last_ret)))
    => /\ CaptchaEvent("captcha_detected") \in CaptchaEvents
       /\ hist.call.action # ""

\* The last snapshot() call applied a retry_new_session resolution
RetryApplied ==
    /\ SnapshotCallDone
    /\ hist.call.action = "retry_new_session"
    /\ hist.call.reason # "reset_session_error"

\* The counter was incremented; past the maximum the call emitted captcha_retry_exhausted
\* and raised, without calling reset_session
RetryCounted ==
    /\ _captcha_retry_count = hist.call.retry + 1
    /\ CaptchaEvent("captcha_retry_new_session") \in CaptchaEvents
    /\ _captcha_retry_count > Val(_captcha_options).max_retries_new_session
        => /\ hist.call.raised
           /\ hist.call.reason = "captcha_retry_exhausted"
           /\ events[Len(events)] = CaptchaEvent("captcha_retry_exhausted")
           /\ hist.call.resets = 0

\* The call called reset_session once and returned the snapshot
SessionReset ==
    /\ hist.call.resets = 1
    /\ ~hist.call.raised
    /\ CaptchaEvent("captcha_retry_exhausted") \notin CaptchaEvents

\* reset_session is called at most max_retries_new_session times between two
\* set_captcha_options calls
ResetsBounded ==
    ~IsNone(_captcha_options) => hist.resets <= Val(_captcha_options).max_retries_new_session

\* Only set_captcha_options lowers the retry counter, to 0
CounterKept ==
    \/ _captcha_retry_count' >= _captcha_retry_count
    \/ hist'.just_set /\ _captcha_retry_count' = 0

WaitApplied ==
    /\ SnapshotCallDone
    /\ hist.call.action = "wait_until_cleared"
    /\ hist.call.reason # "backend_error"

\* Positions of the events with this reason code
EventsAt(reason_code) == {i \in 1..Len(events) : events[i] = CaptchaEvent(reason_code)}

----------------------------------------------------------------------------
(* One FailureArtifactBuffer: frames are added as its clock runs, and it is      *)
(* persisted and cleaned up, by its owner or by the runtime                      *)

\* enable_failure_artifacts(FailureArtifactsOptions(on_before_persist=callback, ...))
BufferEnableCall ==
    /\ pc = "idle"
    /\ IsNone(_artifact_buffer)
    /\ \E persist_mode \in {"onFail", "always"}, callback \in Callbacks,
          buffer_ticks \in {1, 2} :
         \* the shorter buffer is run with the default options
         /\ buffer_ticks = 1 => callback = "none"
         /\ _artifact_buffer' =
                Some([ArtifactBuffer(persist_mode, TRUE) EXCEPT
                          !.on_before_persist = callback, !.buffer_ticks = buffer_ticks])
    /\ events' = <<>>
    /\ UNCHANGED <<stepVars, snapVars, lastActionVars, captchaVars, _assertions_this_step,
                   _task_done, legacy, backend_call, snap_seq, pc, ev, hist>>

\* A call on the buffer that leaves it as after
BufferBecomes(after) ==
    /\ pc = "idle"
    /\ _artifact_buffer' = Some(after)
    /\ events' = <<>>
    /\ UNCHANGED <<stepVars, snapVars, lastActionVars, captchaVars, _assertions_this_step,
                   _task_done, legacy, backend_call, snap_seq, pc, ev, hist>>

\* time_fn() moves on
BufferTick ==
    /\ ~IsNone(_artifact_buffer)
    /\ Val(_artifact_buffer).clock < MaxClock
    /\ BufferBecomes([Val(_artifact_buffer) EXCEPT !.clock = Val(_artifact_buffer).clock + 1])

\* buffer.add_frame(image_bytes); once the temporary directory is gone the write raises
BufferAddFrame ==
    /\ ~IsNone(_artifact_buffer)
    /\ ~Val(_artifact_buffer).cleaned
    /\ Len(Val(_artifact_buffer).stamps) < MaxFrames
    /\ \E delay \in 0..Min(1, MaxClock - Val(_artifact_buffer).clock) :
         BufferBecomes(AddFrameTaking(Val(_artifact_buffer), delay))

\* buffer.persist(reason=..., status=...)
BufferPersist ==
    /\ ~IsNone(_artifact_buffer)
    /\ \E status \in {"failure", "success"} :
         BufferBecomes(persist(Val(_artifact_buffer), "manual", status))

\* buffer.cleanup()
BufferCleanup ==
    /\ ~IsNone(_artifact_buffer)
    /\ BufferBecomes(cleanup(Val(_artifact_buffer)))

\* a required assertion fails
BufferAssertCall == assert_("never", "check", TRUE, TRUE)

NextBuffer ==
    \/ BufferEnableCall
    \/ BufferTick
    \/ BufferAddFrame
    \/ BufferPersist
    \/ BufferCleanup
    \/ BufferAssertCall
    \/ FinalizeRunCall

SpecBuffer == InitAssert /\ [][NextBuffer]_vars

\* The bundles the buffer has written
Bundles == IF IsNone(_artifact_buffer) THEN <<>> ELSE Val(_artifact_buffer).bundles

\* C19: persistence is idempotent: whatever is done with one buffer, required-assertion
\* failures and finalize_run included, at most one bundle directory is created; the
\* first persist returns its path, every later one returns None and writes nothing.
PersistOnce ==
    /\ [](~IsNone(_artifact_buffer) =>
            LET b == Val(_artifact_buffer) IN
            /\ Len(b.bundles) <= 1
            /\ b.ret_first \in {"", "path"}
            /\ b.ret_first = "path" <=> Len(b.bundles) = 1
            /\ b.ret_later \subseteq {"None"}
            /\ b.ret_later # {} => b.ret_first = "path")
    /\ [][Len(Bundles) = 1 => Bundles' = Bundles]_vars

\* A bundle was written, and a later persist returned None
PersistOnceWitness ==
    /\ Len(Bundles) = 1
    /\ Val(_artifact_buffer).ret_first = "path"
    /\ Val(_artifact_buffer).ret_later = {"None"}
    /\ Len(_assertions_this_step) = 2
    /\ Bundles[1].reason = "assert_failed:check"

\* C20: in every persisted bundle, manifest.frame_count is the number of frame files in
\* the bundle's frames/ directory and the manifest's frames list names exactly those
\* files, whatever frames were added and whatever on_before_persist returned.
ManifestCountsFrames ==
    \A i \in 1..Len(Bundles) :
        LET manifest == Bundles[i] IN
        /\ manifest.frame_count = Cardinality(manifest.frames_out)
        /\ Len(manifest.frames) = Cardinality(manifest.frames_out)
        /\ SeqToSet(manifest.frames) = manifest.frames_out

\* C21: after every add_frame each retained frame is no older than buffer_seconds before
\* the prune time, the file of each pruned frame is unlinked, and frame_count() is the
\* number of retained frames; with a buffer of one tick, frames added at 0 and 2 leave one
\* frame, and a persist then copies one frame and writes frame_count 1.
PruneByTime ==
    ~IsNone(_artifact_buffer) =>
        LET b == Val(_artifact_buffer) IN
        /\ b.pruned_at >= 0 =>
              /\ \A i \in 1..Len(b._frames) : b.pruned_at - b._frames[i].ts <= b.buffer_ticks
              /\ \A i \in 1..Len(b.pruned) :
                    /\ b.pruned_at - b.pruned[i].ts > b.buffer_ticks
                    /\ b.pruned[i].file_name \notin b.temp
        /\ frame_count(b) = Len(b.stamps) - b.dropped
        \* the two frames are seconds apart, so their millisecond names differ
        /\ (/\ b.buffer_ticks = 1 /\ b.stamps = <<0, 2>> /\ b.pruned_at = 2
            /\ FrameFile(0) # FrameFile(2)) =>
              /\ frame_count(b) = 1
              /\ b._frames[1].ts = 2
              /\ \A i \in 1..Len(b.bundles) :
                    (/\ b.bundles[i].stamps = b.stamps
                     /\ ~b.bundles[i].cleaned
                     /\ b.on_before_persist = "none")
                    => /\ b.bundles[i].frame_count = 1
                       /\ b.bundles[i].frames_out = {FrameFile(2)}

\* Frames were added at 0 and at 2, and the buffer of one tick was then persisted
PruneWitness ==
    /\ ~IsNone(_artifact_buffer)
    /\ Val(_artifact_buffer).buffer_ticks = 1
    /\ Val(_artifact_buffer).stamps = <<0, 2>>
    /\ FrameFile(0) # FrameFile(2)
    /\ Val(_artifact_buffer).on_before_persist = "none"
    /\ Len(Bundles) = 1
    /\ Bundles[1].stamps = <<0, 2>>
    /\ ~Bundles[1].cleaned
    /\ Bundles[1].frame_count = 1

\* ---------------------------------------------------------------------------------
\* persist() with a snapshot, a redaction callback and clip generation

Payloads ==
    {<<Element("password", "secret"), Element("EMAIL", "secret")>>,
     <<Element("text", "plain"), Element("tel", "absent")>>,
     <<Element("Password", "secret")>>,
     <<>>}

RedactCallbacks == {"none", "keep", "drop", "raises", "substitutes"}

\* AgentRuntime.enable_failure_artifacts with the options of the redaction
RedactEnable ==
    /\ pc = "idle"
    /\ IsNone(_artifact_buffer)
    /\ \E callback \in RedactCallbacks, redact_snapshot_values \in BOOLEAN,
          clip_mode \in {"off", "auto"} :
         _artifact_buffer' =
             Some([ArtifactBuffer("onFail", TRUE) EXCEPT
                       !.on_before_persist = callback,
                       !.redact_snapshot_values = redact_snapshot_values,
                       !.clip_mode = clip_mode])
    /\ events' = <<>>
    /\ UNCHANGED <<stepVars, snapVars, lastActionVars, captchaVars, _assertions_this_step,
                   _task_done, legacy, backend_call, snap_seq, pc, ev, hist>>

\* FailureArtifactBuffer.persist(reason, status, snapshot)
RedactPersist ==
    /\ ~IsNone(_artifact_buffer)
    /\ ~Val(_artifact_buffer).persisted
    /\ \E snapshot \in {None} \cup {Some(payload) : payload \in Payloads},
          own \in {<<Element("password", "secret")>>, <<Element("text", "plain")>>},
          ffmpeg \in BOOLEAN :
         BufferBecomes(PersistWith(Val(_artifact_buffer), "manual", "failure",
                                   PersistInput(snapshot,
                                                IF Val(_artifact_buffer).on_before_persist
                                                      = "substitutes"
                                                THEN Some(own) ELSE None,
                                                ffmpeg)))

NextRedact == RedactEnable \/ BufferAddFrame \/ RedactPersist

SpecRedact == Init /\ [][NextRedact]_vars

\* the elements of a bundle's snapshot.json
SnapshotJson(bundle) == IF IsNone(bundle.snapshot) THEN <<>> ELSE Val(bundle.snapshot)

\* C22 as stated: with redact_snapshot_values true, in every persisted snapshot.json each
\* element whose input_type is password, email or tel has value null and value_redacted
\* true.
SensitiveAlwaysRedacted ==
    (~IsNone(_artifact_buffer) /\ Val(_artifact_buffer).redact_snapshot_values) =>
        \A i \in 1..Len(Bundles) : \A k \in 1..Len(SnapshotJson(Bundles[i])) :
            LET el == SnapshotJson(Bundles[i])[k] IN
            el.input_type \in SensitiveTypes => el.value = "null" /\ el.value_redacted

\* C22: with redact_snapshot_values true and no snapshot substituted by on_before_persist,
\* snapshot.json holds the elements of the snapshot in their order, and each element whose
\* input_type is password, email or tel in any letter case and which carries a value has
\* value null and value_redacted true; an element without a value stays without one, so
\* no value of such an element is in snapshot.json.
SensitiveRedactedByDefault ==
    (~IsNone(_artifact_buffer) /\ Val(_artifact_buffer).redact_snapshot_values
       /\ Val(_artifact_buffer).on_before_persist # "substitutes") =>
        \A i \in 1..Len(Bundles) :
            LET bundle == Bundles[i] IN
            /\ IsNone(bundle.snapshot) <=> IsNone(bundle.given.snapshot)
            /\ ~IsNone(bundle.given.snapshot) =>
                  /\ Len(SnapshotJson(bundle)) = Len(Val(bundle.given.snapshot))
                  /\ \A k \in 1..Len(SnapshotJson(bundle)) :
                        LET el == SnapshotJson(bundle)[k]
                            was == Val(bundle.given.snapshot)[k]
                        IN  /\ el.input_type = was.input_type
                            /\ IF LowerType(was.input_type) \in SensitiveTypes
                               THEN IF was.value = "absent"
                                    THEN el.value = "absent"
                                    ELSE el.value = "null" /\ el.value_redacted
                               ELSE el = was

\* A snapshot with a password value was persisted with the default redaction
RedactWitness ==
    /\ ~IsNone(_artifact_buffer)
    /\ Val(_artifact_buffer).redact_snapshot_values
    /\ Val(_artifact_buffer).on_before_persist = "none"
    /\ Len(Bundles) = 1
    /\ Bundles[1].given.snapshot = Some(<<Element("password", "secret"), Element("EMAIL", "secret")>>)
    /\ SnapshotJson(Bundles[1])[1].value = "null"
    /\ SnapshotJson(Bundles[1])[2].value_redacted

\* C23: when on_before_persist raises or returns drop_frames true, persist copies no frame
\* and generates no clip, writes a manifest with frames_dropped true, frame_count 0 and no
\* frames, still writes steps.json and manifest.json, and returns the bundle path.
FailClosed ==
    (~IsNone(_artifact_buffer) /\ Val(_artifact_buffer).on_before_persist \in {"raises", "drop"}) =>
        /\ Val(_artifact_buffer).persisted =>
              /\ Len(Bundles) = 1
              /\ Val(_artifact_buffer).ret_first = "path"
        /\ \A i \in 1..Len(Bundles) :
              /\ Bundles[i].frames_out = {}
              /\ ~Bundles[i].clip
              /\ "failure.mp4" \notin Bundles[i].files
              /\ Bundles[i].frames_dropped
              /\ Bundles[i].frame_count = 0
              /\ Bundles[i].frames = <<>>
              /\ {"steps.json", "manifest.json"} \subseteq Bundles[i].files

\* A buffer holding a frame was persisted with ffmpeg at hand while its callback raised
FailClosedWitness ==
    /\ ~IsNone(_artifact_buffer)
    /\ Val(_artifact_buffer).on_before_persist = "raises"
    /\ Val(_artifact_buffer).clip_mode = "auto"
    /\ Len(Bundles) = 1
    /\ Bundles[1].given.ffmpeg
    /\ Len(Val(_artifact_buffer)._frames) > 0
    /\ Val(_artifact_buffer).temp # {}
    /\ Val(_artifact_buffer).ret_first = "path"

\* C24: finalize_run(success) writes a bundle exactly when nothing was persisted before
\* and success is false or persist_mode is "always": with status failure and reason
\* finalize_failure when success is false, with status success when it is true; it does
\* nothing when failure artifacts were never enabled.
FinalizePersists ==
    [][\A success \in BOOLEAN : FinalizeRun(success) =>
          IF IsNone(_artifact_buffer)
          THEN _artifact_buffer' = _artifact_buffer
          ELSE LET b == Val(_artifact_buffer)
                   after == Val(_artifact_buffer')
                   wrote == Len(after.bundles) = Len(b.bundles) + 1
                   bundle == after.bundles[Len(after.bundles)]
               IN  /\ ~IsNone(_artifact_buffer')
                   /\ wrote \/ after.bundles = b.bundles
                   /\ wrote <=> (~b.persisted /\ (~success \/ b.persist_mode = "always"))
                   /\ wrote => /\ SubSeq(after.bundles, 1, Len(b.bundles)) = b.bundles
                               /\ bundle.status = (IF success THEN "success" ELSE "failure")
                               /\ success => bundle.reason = "success"
                               /\ ~success => bundle.reason = "finalize_failure"]_vars

\* A successful run that had added frames was finalized under "always"
FinalizeWitness ==
    /\ ~IsNone(_artifact_buffer)
    /\ Val(_artifact_buffer).cleaned
    /\ Val(_artifact_buffer).persist_mode = "always"
    /\ Len(Bundles) = 1
    /\ Bundles[1].status = "success"
    /\ Bundles[1].reason = "success"
    /\ Len(Bundles[1].stamps) = MaxFrames

\* ---------------------------------------------------------------------------------
\* The frame-capture timer task

\* enable_failure_artifacts(FailureArtifactsOptions(fps=..., persist_mode=...)); the task
\* is created when fps > 0
TimerEnable ==
    /\ pc = "idle"
    /\ IsNone(_artifact_buffer)
    /\ \E persist_mode \in {"onFail", "always"}, fps \in {0, 1} :
         _artifact_buffer' =
             Some([ArtifactBuffer(persist_mode, TRUE) EXCEPT
                       !.timer = IF fps > 0 THEN "running" ELSE "none"])
    /\ events' = <<>>
    /\ UNCHANGED <<stepVars, snapVars, lastActionVars, captchaVars, _assertions_this_step,
                   _task_done, legacy, backend_call, snap_seq, pc, ev, hist>>

\* One round of _artifact_timer_loop: _capture_artifact_frame, then the sleep.  shot: the
\* backend delivered the screenshot.  add_frame raises once cleanup() has removed the
\* temporary directory, and the loop catches CancelledError alone
TimerCapture ==
    /\ ~IsNone(_artifact_buffer)
    /\ Val(_artifact_buffer).timer = "running"
    /\ Len(Val(_artifact_buffer).stamps) < MaxFrames
    /\ \E shot \in BOOLEAN :
         LET b == Val(_artifact_buffer) IN
         BufferBecomes(IF ~shot THEN b
                       ELSE IF b.cleaned THEN [b EXCEPT !.timer = "failed"]
                       ELSE add_frame(b))

\* runtime.disable_failure_artifacts()
TimerDisable ==
    /\ ~IsNone(_artifact_buffer)
    /\ BufferBecomes(disable_failure_artifacts(Val(_artifact_buffer)))

NextTimer ==
    \/ TimerEnable
    \/ BufferTick
    \/ TimerCapture
    \/ TimerDisable
    \/ FinalizeRunCall

SpecTimer == Init /\ [][NextTimer]_vars

\* C25: once disable_failure_artifacts() has returned, or finalize_run(success) has
\* returned for either value of success under either persist_mode, the frame-capture
\* timer task is not running any more.
TimerStopped ==
    [][~IsNone(_artifact_buffer) =>
         /\ TimerDisable => Val(_artifact_buffer').timer # "running"
         /\ \A success \in BOOLEAN :
               FinalizeRun(success) => Val(_artifact_buffer').timer # "running"]_vars

\* What the code does ensure: the timer task is cancelled by
\* disable_failure_artifacts() and by finalize_run(success=False) under "onFail"
TimerStoppedOnFail ==
    [][~IsNone(_artifact_buffer) =>
         /\ TimerDisable => Val(_artifact_buffer').timer # "running"
         /\ (FinalizeRun(FALSE) /\ Val(_artifact_buffer).persist_mode = "onFail")
               => Val(_artifact_buffer').timer # "running"]_vars

\* A run with a timer task that had captured a frame was finalized as a success, and the
\* task, still running, then met the removed temporary directory
TimerOutlivesRun ==
    /\ ~IsNone(_artifact_buffer)
    /\ Val(_artifact_buffer).timer = "failed"
    /\ Val(_artifact_buffer).cleaned
    /\ Val(_artifact_buffer).stamps # <<>>

\* ---------------------------------------------------------------------------------
\* persist() file by file, in a process that may be terminated

\* persist() is entered: the bundle directory is made and the payloads are computed
PersistBegin ==
    /\ ~IsNone(_artifact_buffer)
    /\ ~Val(_artifact_buffer).persisted
    /\ IsNone(Val(_artifact_buffer).writing)
    /\ \E snapshot \in {None} \cup {Some(payload) : payload \in Payloads}, ffmpeg \in BOOLEAN :
         LET b == Val(_artifact_buffer)
             in == PersistInput(snapshot,
                                IF b.on_before_persist = "substitutes"
                                THEN Some(<<Element("text", "plain")>>) ELSE None,
                                ffmpeg)
             after == PersistWith(b, "manual", "failure", in)
             bundle == after.bundles[Len(after.bundles)]
         IN  BufferBecomes([b EXCEPT !.writing = Some(bundle), !.ops_left = PersistOps(bundle)])

\* persist() does its next file operation; after the last one it sets _persisted and returns
PersistStep ==
    /\ ~IsNone(_artifact_buffer)
    /\ Val(_artifact_buffer).ops_left # <<>>
    /\ ~Val(_artifact_buffer).terminated
    /\ LET b == Val(_artifact_buffer) IN
       BufferBecomes(IF Len(b.ops_left) > 1 THEN DoOp(b)
                     ELSE PersistWith(DoOp(b), "manual", "failure", Val(b.writing).given))

\* the process is terminated inside persist()
Terminate ==
    /\ ~IsNone(_artifact_buffer)
    /\ Val(_artifact_buffer).ops_left # <<>>
    /\ ~Val(_artifact_buffer).terminated
    /\ BufferBecomes([Val(_artifact_buffer) EXCEPT !.terminated = TRUE])

\* add_frame before persist() is called
AddFrameBefore ==
    /\ ~IsNone(_artifact_buffer)
    /\ IsNone(Val(_artifact_buffer).writing)
    /\ BufferAddFrame

NextTerminate ==
    \/ RedactEnable
    \/ AddFrameBefore
    \/ PersistBegin
    \/ PersistStep
    \/ Terminate

SpecTerminate == Init /\ [][NextTerminate]_vars

JsonNames == {"steps.json", "snapshot.json", "diagnostics.json", "manifest.json"}

\* C26: at every point of a persist(), and so wherever the process is terminated, each
\* JSON file under its final name in the bundle directory is complete, and manifest.json
\* is under its final name only when every copied frame, steps.json and snapshot.json (if
\* the bundle has one) are complete in the directory.
NeverCorrupted ==
    (~IsNone(_artifact_buffer) /\ ~IsNone(Val(_artifact_buffer).writing)) =>
        LET b == Val(_artifact_buffer)
            bundle == Val(b.writing)
            Complete(name) == <<name, "complete">> \in b.run_dir
        IN  /\ \A f \in b.run_dir : f[1] \in JsonNames => f[2] = "complete"
            /\ (\E f \in b.run_dir : f[1] = "manifest.json") =>
                  /\ \A name \in bundle.frames_out : <<name, "complete">> \in b.frames_out
                  /\ \A name \in bundle.files \cap JsonNames : Complete(name)
                  /\ \A f \in b.run_dir : f[2] = "complete"
                  /\ \A f \in b.frames_out : f[2] = "complete"
                  /\ b.ops_left = <<>>
            /\ b.persisted => Complete("manifest.json")

\* The process was terminated while the manifest of a bundle with a frame and a snapshot
\* was being written
TerminatedWitness ==
    /\ ~IsNone(_artifact_buffer)
    /\ Val(_artifact_buffer).terminated
    /\ <<"manifest.json.tmp", "partial">> \in Val(_artifact_buffer).run_dir
    /\ <<"snapshot.json", "complete">> \in Val(_artifact_buffer).run_dir
    /\ \E name \in Val(Val(_artifact_buffer).writing).frames_out :
          <<name, "complete">> \in Val(_artifact_buffer).frames_out

\* ---------------------------------------------------------------------------------
\* Exceptions of predicates and of the tracer

\* C27: an exception raised by the predicate does not escape assert_(): the call returns
\* False, and the failed outcome is accumulated and emitted like any other.
PredicateErrorConverted ==
    [][\A label \in Labels, required \in BOOLEAN :
          assert_("raises", label, required, TRUE) =>
              /\ hist'.fin.returned
              /\ ~hist'.fin.result
              /\ Len(hist'.fin.records) = 1
              /\ Len(_assertions_this_step') = Len(_assertions_this_step) + 1
              /\ Len(events') = 1]_vars

\* C28: when tracer.emit raises, assert_() still returns the outcome of the predicate.
TracerErrorSwallowed ==
    [][\A kind \in {"always", "never", "url_is_B"}, label \in Labels, required \in BOOLEAN :
          assert_(kind, label, required, FALSE) =>
              /\ hist'.fin.returned
              /\ hist'.fin.result = PredicateOutcome(kind, CtxUrl).passed]_vars

\* ---------------------------------------------------------------------------------
\* sentience.backends.snapshot: _eval_with_navigation_retry

\* every variable of the runtime
runtimeVars ==
    <<stepVars, snapVars, lastActionVars, captchaVars, _assertions_this_step, _task_done,
      _artifact_buffer, legacy, events, snap_seq, pc, ev, hist>>

\* A step of a call into sentience.backends.snapshot
BackendBecomes(after) == backend_call' = after /\ UNCHANGED runtimeVars

\* the largest retries a caller passes
MaxRetries == 7

\* An exception of backend.eval, as the phrases its lower-cased message contains
EvalErrors ==
    {{"execution context was destroyed", "most likely because of a navigation"},
     {"cannot find context with specified id"},
     {"timeout exceeded"}}

\* every error of backend.eval is taken for a navigation in flight
EveryErrorRetried(e) == TRUE

\* _is_execution_context_destroyed_error
_is_execution_context_destroyed_error(e) ==
    \/ "execution context was destroyed" \in e
    \/ "most likely because of a navigation" \in e
    \/ "cannot find context with specified id" \in e

\* 0.25 s and 1.5 s, in quarters of a second
BackoffStep == 1
BackoffCap == 6

\* min(0.25 * (attempt + 1), 1.5)
Backoff(attempt) == Min(BackoffStep * (attempt + 1), BackoffCap)

\* The frame of _eval_with_navigation_retry(backend, expression, retries=retries)
EvalFrame(retries) ==
    [fn |-> "eval", status |-> "running", retries |-> retries,
     attempt |-> 0,           \* the loop variable
     last_err |-> None,
     evals |-> 0,             \* backend.eval calls
     nav_errs |-> 0,          \* those that raised a navigation error
     waits |-> 0,             \* backend.wait_ready_state("interactive") calls
     wait_failures |-> 0,     \* those that raised
     sleeps |-> <<>>,         \* the asyncio.sleep arguments
     result |-> None]         \* the value returned or the exception raised

\* _eval_with_navigation_retry is called
EvalBegin ==
    /\ backend_call.status \in {"none", "returned", "raised"}
    /\ \E retries \in -1..MaxRetries : BackendBecomes(EvalFrame(retries))

\* One round of the loop: backend.eval returns a value or raises; after a navigation error
\* below the cap, wait_ready_state (waited: it returned) and the backoff sleep
EvalAttempt ==
    /\ backend_call.status = "running"
    /\ backend_call.fn = "eval"
    /\ backend_call.attempt <= backend_call.retries
    /\ LET c == [backend_call EXCEPT !.evals = backend_call.evals + 1] IN
       \/ BackendBecomes([c EXCEPT !.status = "returned",
                                   !.result = Some(<<"value", c.evals>>)])
       \/ \E e \in EvalErrors, waited \in BOOLEAN :
            LET failed == [c EXCEPT !.last_err = Some(e),
                                    !.nav_errs = c.nav_errs +
                                        (IF _is_execution_context_destroyed_error(e)
                                         THEN 1 ELSE 0)]
            IN  IF ~_is_execution_context_destroyed_error(e) \/ c.attempt >= c.retries
                THEN BackendBecomes([failed EXCEPT !.status = "raised", !.result = Some(e)])
                ELSE BackendBecomes([failed EXCEPT
                                        !.waits = c.waits + 1,
                                        !.wait_failures = c.wait_failures +
                                                          (IF waited THEN 0 ELSE 1),
                                        !.sleeps = Append(c.sleeps, Backoff(c.attempt)),
                                        !.attempt = c.attempt + 1])

\* range(retries + 1) is empty: raise RuntimeError("eval failed")
EvalNoAttempt ==
    /\ backend_call.status = "running"
    /\ backend_call.fn = "eval"
    /\ backend_call.attempt > backend_call.retries
    /\ BackendBecomes([backend_call EXCEPT !.status = "raised",
                                           !.result = Some({"eval failed"})])

NextEval == EvalBegin \/ EvalAttempt \/ EvalNoAttempt

SpecEval == Init /\ [][NextEval]_vars

\* The error carries the signature of a destroyed execution context
NavigationError(err) ==
    Val(err) \cap {"execution context was destroyed", "most likely because of a navigation",
                   "cannot find context with specified id"} # {}

\* C30: _eval_with_navigation_retry calls backend.eval at most retries + 1 times; it goes
\* on to another call only after a navigation error, each time after waiting for the
\* ready state (whether or not the wait failed) and sleeping min(0.25 * (attempt + 1), 1.5)
\* seconds; any other error is raised at once, the last navigation error is raised at the
\* cap, and the value of the first call that succeeds is returned.
EvalRetriesNavigationOnly ==
    (backend_call.status # "none" /\ backend_call.fn = "eval") =>
        LET c == backend_call
            done == c.status \in {"returned", "raised"}
        IN  /\ c.evals <= Max(c.retries + 1, 0)
            /\ Len(c.sleeps) = c.waits
            /\ c.wait_failures <= c.waits
            /\ c.waits = (IF done /\ c.evals > 0 THEN c.evals - 1 ELSE c.evals)
            /\ c.nav_errs >= c.waits
            /\ \A i \in 1..Len(c.sleeps) : c.sleeps[i] = (IF i < 6 THEN i ELSE 6)
            /\ c.status = "returned" =>
                  /\ c.result = Some(<<"value", c.evals>>)
                  /\ c.nav_errs = c.evals - 1
            /\ (c.status = "raised" /\ c.evals > 0) =>
                  /\ c.result = c.last_err
                  /\ NavigationError(c.last_err) => c.evals = c.retries + 1
            /\ (c.status = "running" /\ ~IsNone(c.last_err)) =>
                  /\ NavigationError(c.last_err)
                  /\ c.evals <= c.retries

\* The seventh retry returned a value, after backoffs that reached the cap and a ready
\* state wait that failed
EvalWitness ==
    /\ backend_call.status = "returned"
    /\ backend_call.fn = "eval"
    /\ backend_call.evals = 8
    /\ backend_call.wait_failures > 0
    /\ backend_call.sleeps = <<1, 2, 3, 4, 5, 6, 6>>

\* ---------------------------------------------------------------------------------
\* sentience.backends.snapshot: snapshot() and _snapshot_via_api

\* SnapshotOptions(use_api=..., sentience_api_key=..., show_overlay=...)
ApiOptions ==
    [use_api : {None, Some(TRUE), Some(FALSE)}, sentience_api_key : {None, Some("sk")},
     show_overlay : BOOLEAN]

\* should_use_api and options.sentience_api_key
ViaApi(options) ==
    /\ IF ~IsNone(options.use_api) THEN Val(options.use_api)
       ELSE ~IsNone(options.sentience_api_key)
    /\ ~IsNone(options.sentience_api_key)

\* What window.sentience.snapshot(options) gives: None, or the raw elements
RawResults == {None, Some({}), Some({"e1"}), Some({"e1", "e2"})}

\* How the POST to the refinement service ends: with the ranked elements, or with an
\* exception: a transport error or HTTP error of the client library, a SnapshotGatewayError,
\* a RuntimeError, a ValueError
PostOutcomes == {"ok", "transport", "http", "gateway", "runtime", "value"}

\* The Snapshot(**result) built from the extension's raw result alone
LocalSnapshot(raw_result) == [source |-> "extension", elements |-> Val(raw_result)]

\* _merge_api_result_with_local: the elements the service ranked
MergedSnapshot(raw_result) == [source |-> "api", elements |-> Val(raw_result)]

\* RuntimeError(f"Server-side snapshot API failed: {e}. ...") from e
ApiFailed(e) == <<"Server-side snapshot API failed", e>>

\* The frame of snapshot(backend, options)
SnapshotFrame(options) ==
    [fn |-> "snapshot", status |-> "running", options |-> options,
     path |-> IF ViaApi(options) THEN "api" ELSE "extension",
     raw_result |-> None, got_raw |-> FALSE, post |-> "none", result |-> None]

\* snapshot(backend, options) is called
ApiBegin ==
    /\ backend_call.status \in {"none", "returned", "raised"}
    /\ \E options \in ApiOptions : BackendBecomes(SnapshotFrame(options))

\* The extension is asked for the raw result; None raises SnapshotError, and
\* _snapshot_via_extension returns the Snapshot built from a result
ApiRaw ==
    /\ backend_call.status = "running"
    /\ backend_call.fn = "snapshot"
    /\ ~backend_call.got_raw
    /\ \E raw_result \in RawResults :
         LET c == [backend_call EXCEPT !.raw_result = raw_result, !.got_raw = TRUE] IN
         BackendBecomes(
             IF IsNone(raw_result)
             THEN [c EXCEPT !.status = "raised", !.result = Some("SnapshotError")]
             ELSE IF c.path = "extension"
             THEN [c EXCEPT !.status = "returned", !.result = Some(LocalSnapshot(raw_result))]
             ELSE c)

\* The exception that leaves the except clauses of _snapshot_via_api for an exception e
\* raised inside its try.  gateway_is_runtime: SnapshotGatewayError derives from
\* RuntimeError; otherwise the raise under isinstance is caught by the except Exception
\* around it, and e is wrapped like any other
ApiError(e, gateway_is_runtime) ==
    IF e \in {"runtime", "value"} \/ (e = "gateway" /\ gateway_is_runtime) THEN e
    ELSE ApiFailed(e)

\* _snapshot_via_api from the POST on: the merge, the overlay (shown: its eval returned)
ApiPost ==
    /\ backend_call.status = "running"
    /\ backend_call.fn = "snapshot"
    /\ backend_call.got_raw
    /\ backend_call.path = "api"
    /\ \E post \in PostOutcomes, shown \in BOOLEAN, gateway_is_runtime \in BOOLEAN :
         LET c == [backend_call EXCEPT !.post = post]
             overlay == c.options.show_overlay /\ Val(c.raw_result) # {}
         IN  BackendBecomes(
                 IF post # "ok"
                 THEN [c EXCEPT !.status = "raised",
                                !.result = Some(ApiError(post, gateway_is_runtime))]
                 ELSE IF overlay /\ ~shown
                 THEN [c EXCEPT !.status = "raised",
                                !.result = Some(ApiError("overlay", gateway_is_runtime))]
                 ELSE [c EXCEPT !.status = "returned",
                                !.result = Some(MergedSnapshot(c.raw_result))])

NextApi == ApiBegin \/ ApiRaw \/ ApiPost

SpecApi == Init /\ [][NextApi]_vars

\* C29: when the POST to the refinement service fails with an HTTP or transport error,
\* snapshot() returns the Snapshot built from the raw result of the extension; when it
\* fails with a structured gateway error, that error is raised unchanged.
ApiFailureFallsBack ==
    (backend_call.status \in {"returned", "raised"} /\ backend_call.fn = "snapshot"
       /\ backend_call.path = "api") =>
        /\ backend_call.post \in {"transport", "http"} =>
              /\ backend_call.status = "returned"
              /\ backend_call.result = Some(LocalSnapshot(backend_call.raw_result))
        /\ backend_call.post = "gateway" =>
              /\ backend_call.status = "raised"
              /\ backend_call.result = Some("gateway")

-----------------------------------------------------------------------------
(* sentience/backends/snapshot.py: merge_snapshots, the union of sampled snapshots *)

\* elements the snapshots handed to one merge hold in all
MaxMerged == 3
\* text[:120]: the characters of an element's text that enter its key
KeyTextLen == 120

\* a text one character longer than the key keeps, ending in c
LongText(c) == [i \in 1..(KeyTextLen + 1) |-> IF i = KeyTextLen + 1 THEN c ELSE "x"]

\* An element as the merge reads it; href, name and text are character
\* sequences, the empty one standing for None and for ""
MergeElement(id, href, name, text, doc_y, importance) ==
    [id |-> id, role |-> "link", href |-> href, name |-> name, text |-> text,
     doc_y |-> doc_y, importance |-> importance]

MergePool ==
    { MergeElement(1, <<"a">>, <<>>, <<"A">>, Some(10), 1),
      MergeElement(2, <<" ", "a">>, <<>>, <<>>, None, 2),
      MergeElement(3, <<>>, <<"n">>, <<>>, Some(10), 1),
      MergeElement(4, <<>>, <<"n", " ">>, <<"t">>, None, 1),
      MergeElement(5, <<>>, <<>>, <<"t", " ", " ", "u">>, Some(-5), 1),
      MergeElement(6, <<>>, <<>>, <<" ", "t", "\n", "u">>, Some(-1), 1),
      MergeElement(7, <<>>, <<>>, LongText("y"), None, 1),
      MergeElement(8, <<>>, <<>>, LongText("z"), None, 2),
      MergeElement(9, <<>>, <<" ">>, <<>>, Some(10), 2),
      MergeElement(10, <<>>, <<>>, <<>>, None, 1) }

\* _normalize_ws: " ".join((text or "").split()).strip()
RECURSIVE _normalize_ws(_)
_normalize_ws(text) ==
    LET t == LStrip(text)
        stops == {i \in 1..Len(t) : t[i] \in Spaces}
        end == IF stops = {} THEN Len(t) + 1 ELSE CHOOSE i \in stops : \A j \in stops : i <= j
        rest == _normalize_ws(SubSeq(t, end, Len(t)))
    IN  IF t = <<>> THEN <<>>
        ELSE IF rest = <<>> THEN SubSeq(t, 1, end - 1)
        ELSE SubSeq(t, 1, end - 1) \o <<" ">> \o rest

\* text[:n]
Prefix(t, n) == SubSeq(t, 1, Min(Len(t), n))

\* A dedupe key: the tag, and the parts the tag gives a meaning to
DedupeKey(kind, role, text, n) == [kind |-> kind, role |-> role, text |-> text, n |-> n]

\* _dedupe_key
_dedupe_key(el) ==
    LET href == Strip(el.href)
        name == _normalize_ws(el.name)
        text == _normalize_ws(el.text)
    IN  IF href # <<>> THEN DedupeKey("href", "", href, 0)
        ELSE IF name # <<>> THEN DedupeKey("role_name", el.role, name, 0)
        ELSE IF text # <<>> THEN
            IF ~IsNone(el.doc_y)
            THEN DedupeKey("role_text_docy", el.role, Prefix(text, KeyTextLen),
                           Val(el.doc_y) \div 10)
            ELSE DedupeKey("role_text", el.role, Prefix(text, KeyTextLen), 0)
        ELSE IF ~IsNone(el.doc_y) THEN DedupeKey("role_docy", el.role, <<>>, Val(el.doc_y) \div 10)
        ELSE DedupeKey("id", "", <<>>, el.id)

\* Python's order of two tuples of numbers of one length
RECURSIVE TupleLess(_, _)
TupleLess(a, b) ==
    /\ Len(a) > 0
    /\ \/ a[1] < b[1]
       \/ a[1] = b[1] /\ TupleLess(Tail(a), Tail(b))

Flag(cond) == IF cond THEN 1 ELSE 0

\* merge_snapshots._quality_score
_quality_score(e) ==
    <<e.importance, Flag(Strip(e.href) # <<>>), Flag(_normalize_ws(e.text) # <<>>),
      Flag(_normalize_ws(e.name) # <<>>), Flag(~IsNone(e.doc_y))>>

\* a later element takes the key's place whenever it is not worse
QualityNotLess(el, prev) == ~TupleLess(_quality_score(el), _quality_score(prev))

\* _quality_score(el) > _quality_score(prev)
QualityGreater(el, prev) == TupleLess(_quality_score(prev), _quality_score(el))

\* for snap in snaps: for el in snap.elements: the elements in the order the loop meets them
RECURSIVE MergeInputs(_)
MergeInputs(snaps) ==
    IF snaps = <<>> THEN <<>> ELSE Head(snaps).elements \o MergeInputs(Tail(snaps))

\* The loop of merge_snapshots from its idx-th element on; best holds
\* best_by_key and first_seen_idx, one entry per key in the dict's order
RECURSIVE MergeLoop(_, _, _)
MergeLoop(els, idx, best) ==
    IF idx >= Len(els) THEN best
    ELSE
        LET el == els[idx + 1]
            k == _dedupe_key(el)
            at == {i \in 1..Len(best) : best[i].key = k}
        IN  IF at = {}
            THEN MergeLoop(els, idx + 1, Append(best, [key |-> k, el |-> el, first_seen |-> idx]))
            ELSE
                LET i == CHOOSE j \in at : TRUE
                IN  IF QualityGreater(el, best[i].el)
                    THEN MergeLoop(els, idx + 1, [best EXCEPT ![i].el = el])
                    ELSE MergeLoop(els, idx + 1, best)

\* the order turned around: the greatest key first
SortKeyReversed(entry) ==
    IF ~IsNone(entry.el.doc_y)
    THEN <<0, 0 - Val(entry.el.doc_y), entry.el.importance>>
    ELSE <<1, 0, 0 - entry.first_seen>>

\* merge_snapshots._sort_key; an element without doc_y sorts after every one with
\* it, so the infinity of the code is left out of the second place
_sort_key(entry) ==
    IF ~IsNone(entry.el.doc_y)
    THEN <<0, Val(entry.el.doc_y), 0 - entry.el.importance>>
    ELSE <<1, 0, entry.first_seen>>

\* list.sort(key=_sort_key): stable, entries of equal keys keep their order
RECURSIVE SortEntries(_)
SortEntries(q) ==
    IF q = <<>> THEN <<>>
    ELSE
        LET front == SortEntries(SubSeq(q, 1, Len(q) - 1))
            e == q[Len(q)]
            before == {i \in 1..Len(front) : ~TupleLess(_sort_key(e), _sort_key(front[i]))}
            n == Cardinality(before)
        IN  SubSeq(front, 1, n) \o <<e>> \o SubSeq(front, n + 1, Len(front))

\* max(1, int(union_limit))
UnionLimit(union_limit) == Max(1, union_limit)

\* a snapshot as the merge reads and builds it
SampledSnapshot(url, screenshot, elements) ==
    [url |-> url, viewport |-> <<"viewport", url>>, diagnostics |-> <<"diagnostics", url>>,
     screenshot |-> screenshot, elements |-> elements]

\* merge_snapshots
merge_snapshots(snaps, union_limit) ==
    IF snaps = <<>> THEN [raised |-> "ValueError"]
    ELSE
        LET base == snaps[1]
            sorted == SortEntries(MergeLoop(MergeInputs(snaps), 0, <<>>))
            merged == [i \in 1..Len(sorted) |-> sorted[i].el]
            kept == IF IsNone(union_limit) THEN merged
                    ELSE Prefix(merged, UnionLimit(Val(union_limit)))
        IN  [raised |-> "", snapshot |-> [base EXCEPT !.elements = kept, !.screenshot = None]]

\* the element lists a merge is handed
RECURSIVE ElementLists(_)
ElementLists(n) ==
    IF n = 0 THEN {<<>>}
    ELSE LET shorter == ElementLists(n - 1)
         IN  shorter \cup {Append(q, e) : q \in {s \in shorter : Len(s) = n - 1}, e \in MergePool}

UnionLimits == {None, Some(0), Some(2)}

\* merge_snapshots(snaps, union_limit=...) on one snapshot, or on two
MergeCall ==
    /\ backend_call.status = "none"
    /\ \E els \in ElementLists(MaxMerged), two \in BOOLEAN, union_limit \in UnionLimits :
          LET cut == Min(1, Len(els))
              snaps == IF two
                       THEN <<SampledSnapshot("u1", Some("shot"), SubSeq(els, 1, cut)),
                              SampledSnapshot("u2", None, SubSeq(els, cut + 1, Len(els)))>>
                       ELSE <<SampledSnapshot("u1", Some("shot"), els)>>
          IN  BackendBecomes([status |-> "merged", snaps |-> snaps, union_limit |-> union_limit,
                              result |-> merge_snapshots(snaps, union_limit)])

\* merge_snapshots([])
MergeNothing ==
    /\ backend_call.status = "none"
    /\ BackendBecomes([status |-> "merged", snaps |-> <<>>, union_limit |-> None,
                       result |-> merge_snapshots(<<>>, None)])

NextMerge == MergeCall \/ MergeNothing

SpecMerge == Init /\ [][NextMerge]_vars

Merged == backend_call.status = "merged" /\ backend_call.snaps # <<>>

MergedWhole == Merged /\ IsNone(backend_call.union_limit)

MergeGiven == MergeInputs(backend_call.snaps)

MergeKept == backend_call.result.snapshot.elements

\* the representative of the elements that share key(e) with e: none of them is
\* better, and none before it is as good
Representative(key(_), i) ==
    LET e == MergeGiven[i]
    IN  \A j \in 1..Len(MergeGiven) :
           key(MergeGiven[j]) = key(e) =>
              /\ ~TupleLess(_quality_score(e), _quality_score(MergeGiven[j]))
              /\ j < i => TupleLess(_quality_score(MergeGiven[j]), _quality_score(e))

\* the merge keeps, of the elements that share a key, the representative and no other
KeepsOnePerKey(key(_)) ==
    MergedWhole =>
        /\ \A i, j \in 1..Len(MergeKept) : key(MergeKept[i]) = key(MergeKept[j]) => i = j
        /\ \A i \in 1..Len(MergeGiven) :
              Representative(key, i) => \E j \in 1..Len(MergeKept) : MergeKept[j] = MergeGiven[i]
        /\ \A j \in 1..Len(MergeKept) :
              \E i \in 1..Len(MergeGiven) :
                 Representative(key, i) /\ MergeKept[j] = MergeGiven[i]

\* the key as five cases: href; (role, name); (role, text[:120], floor(doc_y/10));
\* (role, floor(doc_y/10)); id
FiveCaseKey(el) ==
    IF Strip(el.href) # <<>> THEN <<"href", Strip(el.href)>>
    ELSE IF _normalize_ws(el.name) # <<>> THEN <<"role_name", el.role, _normalize_ws(el.name)>>
    ELSE IF _normalize_ws(el.text) # <<>> /\ ~IsNone(el.doc_y)
        THEN <<"role_text_docy", el.role, Prefix(_normalize_ws(el.text), KeyTextLen),
               Val(el.doc_y) \div 10>>
    ELSE IF ~IsNone(el.doc_y) THEN <<"role_docy", el.role, Val(el.doc_y) \div 10>>
    ELSE <<"id", el.id>>

\* C31, as stated: the merge keeps exactly one element per key, the best and
\* first seen of the key, the key being the first that applies of href,
\* (role, name), (role, text[:120], floor(doc_y/10)), (role, floor(doc_y/10)), id
OnePerFiveCaseKey == KeepsOnePerKey(FiveCaseKey)

\* C31, amended: the merge keeps exactly one element per key, the greatest by
\* (importance, has_href, has_text, has_name, has_doc_y) and the first seen of
\* the equals, the key being the first that applies of href, (role, name),
\* (role, text[:120], floor(doc_y/10)), (role, text[:120]) for an element
\* without doc_y, (role, floor(doc_y/10)), id
OnePerDedupeKey == KeepsOnePerKey(_dedupe_key)

\* two texts that differ after their 120th character, merged into one element
MergeWitness ==
    /\ MergedWhole
    /\ Len(MergeGiven) = 3
    /\ Len(MergeKept) = 2
    /\ MergeGiven[1].id = 7 /\ MergeGiven[2].id = 8 /\ MergeGiven[3].id = 10
    /\ MergeKept[1].id = 8

\* where the loop first met the key of e
FirstSeen(e) ==
    CHOOSE i \in 1..Len(MergeGiven) :
        /\ _dedupe_key(MergeGiven[i]) = _dedupe_key(e)
        /\ \A j \in 1..(i - 1) : _dedupe_key(MergeGiven[j]) # _dedupe_key(e)

\* a comes no later than b in document order
InDocumentOrder(a, b) ==
    IF ~IsNone(a.doc_y) /\ ~IsNone(b.doc_y)
    THEN \/ Val(a.doc_y) < Val(b.doc_y)
         \/ Val(a.doc_y) = Val(b.doc_y) /\ a.importance >= b.importance
    ELSE IF IsNone(a.doc_y) /\ IsNone(b.doc_y) THEN FirstSeen(a) < FirstSeen(b)
    ELSE IsNone(b.doc_y)

\* the keys among the elements handed in
KeysGiven == Cardinality({FirstSeen(MergeGiven[i]) : i \in 1..Len(MergeGiven)})

\* C32: the merged elements come in document order: those with doc_y first, by
\* ascending doc_y and then by descending importance, those without it after
\* them as their keys were first seen; the merged snapshot has no screenshot
\* and the url, viewport and diagnostics of the first snapshot, and under a
\* union_limit it holds the first max(1, union_limit) of the elements
MergedInOrder ==
    Merged =>
        LET out == backend_call.result.snapshot
            first == backend_call.snaps[1]
            union_limit == backend_call.union_limit
        IN  /\ \A i, j \in 1..Len(MergeKept) : i < j => InDocumentOrder(MergeKept[i], MergeKept[j])
            /\ IsNone(out.screenshot)
            /\ out.url = first.url
            /\ out.viewport = first.viewport
            /\ out.diagnostics = first.diagnostics
            /\ Len(MergeKept) = IF IsNone(union_limit) THEN KeysGiven
                                ELSE Min(KeysGiven, Max(1, Val(union_limit)))
            /\ \A e \in MergePool :
                  (\E i \in 1..Len(MergeGiven) : MergeGiven[i] = e /\ Representative(_dedupe_key, i))
                  /\ (\A j \in 1..Len(MergeKept) : MergeKept[j] # e)
                  => \A j \in 1..Len(MergeKept) : InDocumentOrder(MergeKept[j], e)

\* three elements of three keys under union_limit = 0: the one that is first in
\* document order is the one kept, and the screenshot of the first snapshot is gone
MergeOrderWitness ==
    /\ Merged
    /\ backend_call.union_limit = Some(0)
    /\ Len(backend_call.snaps) = 2
    /\ ~IsNone(backend_call.snaps[1].screenshot)
    /\ Len(MergeGiven) = 3
    /\ MergeGiven[1].id = 10 /\ MergeGiven[2].id = 9 /\ MergeGiven[3].id = 5
    /\ Len(MergeKept) = 1
    /\ MergeKept[1].id = 5

-----------------------------------------------------------------------------
(* AgentRuntime.scroll_by, poll by poll *)

\* scroll positions are counted in parts of a pixel: this many make one pixel
PxUnit == 2
\* how long a verification may take, in ticks
MaxScrollTimeout == 2

Abs(n) == IF n < 0 THEN 0 - n ELSE n

\* the fallback is tried whatever the wheel achieved
AnyDelta(delta) == TRUE

\* abs(delta) < 1.0: the wheel had no effect
NoEffect(delta) == Abs(delta) < PxUnit

\* passed = abs(delta) >= float(min_delta_px)
ScrollPassed(delta, min_delta_px) == Abs(delta) >= min_delta_px

\* float(top) if top is not None else default
TopOr(top, default) == IF IsNone(top) THEN default ELSE Val(top)

\* the record _record_outcome accumulates for scroll_by, with the details of its outcome
ScrollRecord(label, required, passed, delta, used_js_fallback) ==
    [label |-> label, passed |-> passed, required |-> required,
     reason |-> IF passed THEN "" ELSE "scroll delta < min_delta_px",
     details |-> [delta_px |-> delta, js_fallback_used |-> used_js_fallback]]

\* the verification event _record_outcome emits for it
ScrollEvent(record) ==
    [type |-> "verification", kind |-> "scroll", label |-> record.label,
     passed |-> record.passed, details |-> record.details]

\* scroll_by up to its loop: record_action, the metrics before, the wheel.  took is
\* the time the wheel takes; the frame also keeps what the call has done so far
ScrollFrame(verify, min_delta_px, timeout_s, poll_s, js_fallback, required, before, took) ==
    [status |-> IF verify THEN "polling" ELSE "returned",
     verify |-> verify, min_delta_px |-> min_delta_px, timeout_s |-> timeout_s,
     poll_s |-> poll_s, js_fallback |-> js_fallback, required |-> required,
     before_top_f |-> TopOr(before, 0), used_js_fallback |-> FALSE, elapsed |-> took,
     result |-> IF verify THEN None ELSE Some(TRUE),
     wheels |-> 1,               \* backend.wheel calls
     js_calls |-> 0,             \* backend.eval("window.scrollBy...") calls
     fallback_delta |-> None,    \* the delta seen just before the fallback
     polls |-> 0,                \* metrics read in the loop
     checked_at |-> None,        \* elapsed, at the last timeout check
     passed_at |-> None,         \* when the passing metrics were read
     records_before |-> Len(_assertions_this_step)]

ScrollBegin(verify, min_delta_px, timeout_s, poll_s, js_fallback, required, before, took) ==
    /\ pc = "idle"
    /\ backend_call.status = "none"
    /\ IsNone(_artifact_buffer)
    /\ Len(_assertions_this_step) < MaxAssertions
    /\ _last_action' = Some("scroll_by")
    /\ _cached_url' = Some("A")
    /\ backend_call' =
         ScrollFrame(verify, min_delta_px, timeout_s, poll_s, js_fallback, required, before, took)
    /\ events' = <<>>
    /\ UNCHANGED <<stepVars, last_snapshot, _step_pre_snapshot, _step_pre_url,
                   _last_action_error, _last_action_outcome, _last_action_duration_ms,
                   _last_action_success, captchaVars, _assertions_this_step, _task_done,
                   _artifact_buffer, legacy, snap_seq, pc, ev, hist>>

\* One round of the loop: after is the top the page reports, took the time the
\* metrics take to arrive
ScrollPoll(after, took) ==
    LET f == backend_call
        now == f.elapsed + took
        delta == TopOr(after, f.before_top_f) - f.before_top_f
        passed == ScrollPassed(delta, f.min_delta_px)
        timed_out == now >= f.timeout_s
        record == ScrollRecord("scroll_effective", f.required, passed, delta, f.used_js_fallback)
        falls_back == f.js_fallback /\ ~f.used_js_fallback /\ NoEffect(delta)
        polled == [f EXCEPT !.polls = Min(2, f.polls + 1)]
    IN  /\ pc = "idle"
        /\ f.status = "polling"
        /\ IF passed \/ timed_out
           THEN /\ backend_call' =
                     [polled EXCEPT !.status = "returned", !.result = Some(passed),
                                    !.elapsed = now,
                                    !.passed_at = IF passed THEN Some(now) ELSE None]
                /\ _assertions_this_step' = Accumulate(_assertions_this_step, record, TRUE)
                /\ events' = <<ScrollEvent(record)>>
                /\ _artifact_buffer' =
                     IF ~passed /\ f.required
                     THEN PersistFailure(_artifact_buffer,
                                         PersistReason("scroll_failed", "scroll_effective"))
                     ELSE _artifact_buffer
           ELSE /\ backend_call' =
                     [polled EXCEPT !.elapsed = now + f.poll_s, !.checked_at = Some(now),
                                    !.used_js_fallback = f.used_js_fallback \/ falls_back,
                                    !.js_calls = f.js_calls + Flag(falls_back),
                                    !.fallback_delta =
                                        IF falls_back THEN Some(delta) ELSE f.fallback_delta]
                /\ events' = <<>>
                /\ UNCHANGED <<_assertions_this_step, _artifact_buffer>>
        /\ UNCHANGED <<stepVars, snapVars, lastActionVars, captchaVars, _task_done, legacy,
                       snap_seq, pc, ev, hist>>

\* the tops a page reports: none, or a number of parts of a pixel
ScrollTops == {None} \cup {Some(t) : t \in {0, 2 * PxUnit, 2 * PxUnit + 1, 3 * PxUnit, 4 * PxUnit}}

ScrollBeginCall ==
    \E verify \in BOOLEAN, min_delta_px \in {0, 2 * PxUnit}, timeout_s \in 0..MaxScrollTimeout,
       poll_s \in {0, 1}, js_fallback \in BOOLEAN, required \in BOOLEAN,
       before \in {None, Some(2 * PxUnit)}, took \in {0, 1} :
        ScrollBegin(verify, min_delta_px, timeout_s, poll_s, js_fallback, required, before, took)

ScrollPollCall == \E after \in ScrollTops, took \in {0, 1} : ScrollPoll(after, took)

NextScroll == ScrollBeginCall \/ ScrollPollCall

SpecScroll == InitAssert /\ [][NextScroll]_vars

ScrollReturned == "verify" \in DOMAIN backend_call /\ backend_call.status = "returned"

\* what a returned scroll_by did, but for the value it returned
ScrollDid ==
    LET f == backend_call
        mine == SubSeq(_assertions_this_step, f.records_before + 1, Len(_assertions_this_step))
    IN  /\ f.wheels = 1
        /\ f.verify =>
              /\ f.js_calls <= 1
              /\ f.js_calls = 1 => ~IsNone(f.fallback_delta) /\ Abs(Val(f.fallback_delta)) < PxUnit
              /\ f.used_js_fallback <=> f.js_calls = 1
              /\ Len(mine) = 1
              /\ mine[1].passed = Val(f.result)
              /\ mine[1].details.js_fallback_used = f.used_js_fallback
              /\ ScrollPassed(mine[1].details.delta_px, f.min_delta_px) = Val(f.result)
              /\ Len(events) = 1 /\ events[1].kind = "scroll"
        /\ ~f.verify => /\ mine = <<>>
                        /\ f.js_calls = 0
                        /\ f.result = Some(TRUE)

\* C33, as stated: a verified scroll_by makes one wheel call, at most one JS
\* fallback and that only after a delta below one pixel, accumulates one scroll
\* record with delta_px and js_fallback_used, and returns true iff a delta of at
\* least min_delta_px was observed before timeout_s had elapsed; an unverified one
\* makes the wheel call, records nothing and returns true
ScrollTrueBeforeTimeout ==
    ScrollReturned =>
        /\ ScrollDid
        /\ backend_call.verify =>
              (Val(backend_call.result) <=>
                  /\ ~IsNone(backend_call.passed_at)
                  /\ Val(backend_call.passed_at) < backend_call.timeout_s)

\* C33, amended: the same, but the call returns true iff one of its polls observed
\* a delta of at least min_delta_px; the first poll is always made and a later one
\* whenever the check after the poll before it found timeout_s not yet elapsed, so
\* the observation itself may come after timeout_s; it returns false only from a
\* poll that ended at or after timeout_s
ScrollTrueWhenObserved ==
    ScrollReturned =>
        LET f == backend_call
        IN  /\ ScrollDid
            /\ f.verify =>
                  /\ Val(f.result) <=> ~IsNone(f.passed_at)
                  /\ f.polls >= 1
                  /\ f.polls > 1 => ~IsNone(f.checked_at) /\ Val(f.checked_at) < f.timeout_s
                  /\ ~Val(f.result) => f.elapsed >= f.timeout_s

\* a scroll that the wheel did not move: the fallback was tried once, and the
\* passing delta was read after timeout_s was over
ScrollWitness ==
    /\ ScrollReturned
    /\ backend_call.verify
    /\ backend_call.js_calls = 1
    /\ backend_call.result = Some(TRUE)
    /\ backend_call.polls > 1
    /\ Val(backend_call.passed_at) > backend_call.timeout_s
    /\ Len(_assertions_this_step) = 1

-----------------------------------------------------------------------------
(* Two runtimes side by side: what AgentRuntime.__init__ and
   FailureArtifactBuffer.__init__ give each of them *)

\* begin_step calls, assertions and frames of each of the two runtimes
MaxEach == 1

Runtimes == {1, 2}

\* SnapshotOptions(): no API key, use_api not set
NewSnapshotOptions == [predicate_api_key |-> None, sentience_api_key |-> None, use_api |-> None]

\* The objects and directories of the process before a runtime is built: the
\* SnapshotOptions object the caller holds is object 1; dirs maps a directory to
\* the files in it; made counts the directories mkdtemp has made
World ==
    [status |-> "world", heap |-> <<NewSnapshotOptions>>, runtimes |-> [i \in Runtimes |-> None],
     dirs |-> <<>>, actor |-> 0]

\* AgentRuntime.__init__(backend, tracer, snapshot_options, predicate_api_key): given,
\* whether the caller passes its SnapshotOptions object; the runtime keeps a
\* reference to the options, not a copy
NewRuntime(w, i, given, api_key) ==
    LET ref == IF given THEN 1 ELSE Len(w.heap) + 1
        heap == IF given THEN w.heap ELSE Append(w.heap, NewSnapshotOptions)
        default_opts == heap[ref]
        keyed == [default_opts EXCEPT !.predicate_api_key = api_key,
                                      !.sentience_api_key = api_key,
                                      !.use_api = IF IsNone(default_opts.use_api) THEN Some(TRUE)
                                                  ELSE default_opts.use_api]
    IN  [w EXCEPT !.heap = IF IsNone(api_key) THEN heap ELSE [heap EXCEPT ![ref] = keyed],
                  !.runtimes[i] =
                      Some([_snapshot_options |-> ref, run_id |-> i, step_index |-> -1,
                            step_id |-> None, _assertions_this_step |-> <<>>,
                            _artifact_buffer |-> None]),
                  !.actor = i]

\* FailureArtifactBuffer.__init__: tempfile.mkdtemp makes a directory no one has
NewBuffer(w, i) ==
    LET dir == Len(w.dirs) + 1
    IN  [w EXCEPT !.dirs = Append(w.dirs, {}),
                  !.runtimes[i] = Some([Val(w.runtimes[i]) EXCEPT
                                           !._artifact_buffer = Some([_temp_dir |-> dir,
                                                                      run_dir |-> None])]),
                  !.actor = i]

Construct(i, given, api_key) ==
    /\ backend_call.status = "none" \/
          (backend_call.status = "world" /\ IsNone(backend_call.runtimes[i]))
    /\ BackendBecomes(NewRuntime(IF backend_call.status = "none" THEN World ELSE backend_call,
                                 i, given, api_key))

Built(i) == backend_call.status = "world" /\ ~IsNone(backend_call.runtimes[i])

\* begin_step on runtime i
EachBeginStep(i) ==
    /\ Built(i)
    /\ Val(backend_call.runtimes[i]).step_index < MaxEach - 1
    /\ LET rt == Val(backend_call.runtimes[i])
           index == rt.step_index + 1
       IN  BackendBecomes([backend_call EXCEPT
               !.runtimes[i] = Some([rt EXCEPT !.step_index = index,
                                               !.step_id = Some(FormatStepId(index)),
                                               !._assertions_this_step = <<>>]),
               !.actor = i])

\* assert_ on runtime i
EachAssert(i) ==
    /\ Built(i)
    /\ Len(Val(backend_call.runtimes[i])._assertions_this_step) < MaxEach
    /\ LET rt == Val(backend_call.runtimes[i])
       IN  BackendBecomes([backend_call EXCEPT
               !.runtimes[i] = Some([rt EXCEPT !._assertions_this_step =
                                        Accumulate(@, [label |-> "a", passed |-> TRUE], TRUE)]),
               !.actor = i])

\* enable_failure_artifacts on runtime i
EachEnable(i) ==
    /\ Built(i)
    /\ IsNone(Val(backend_call.runtimes[i])._artifact_buffer)
    /\ BackendBecomes(NewBuffer(backend_call, i))

\* add_frame on the buffer of runtime i: a file in its temporary directory
EachAddFrame(i) ==
    /\ Built(i)
    /\ ~IsNone(Val(backend_call.runtimes[i])._artifact_buffer)
    /\ LET dir == Val(Val(backend_call.runtimes[i])._artifact_buffer)._temp_dir
       IN  /\ Cardinality(backend_call.dirs[dir]) < MaxEach
           /\ BackendBecomes([backend_call EXCEPT !.dirs[dir] = @ \cup {"frame"}, !.actor = i])

\* persist on the buffer of runtime i: output_dir / f"{run_id}-{ts}" takes the frames
EachPersist(i) ==
    /\ Built(i)
    /\ ~IsNone(Val(backend_call.runtimes[i])._artifact_buffer)
    /\ LET rt == Val(backend_call.runtimes[i])
           b == Val(rt._artifact_buffer)
       IN  /\ IsNone(b.run_dir)
           /\ BackendBecomes([backend_call EXCEPT
                  !.dirs = Append(@, backend_call.dirs[b._temp_dir]),
                  !.runtimes[i] = Some([rt EXCEPT !._artifact_buffer =
                                           Some([b EXCEPT !.run_dir =
                                                    Some(Len(backend_call.dirs) + 1)])]),
                  !.actor = i])

ApiKeys == {None, Some("k")}

NextTwo ==
    \E i \in Runtimes :
        \/ \E given \in BOOLEAN, api_key \in ApiKeys : Construct(i, given, api_key)
        \/ EachBeginStep(i)
        \/ EachAssert(i)
        \/ EachEnable(i)
        \/ EachAddFrame(i)
        \/ EachPersist(i)

SpecTwo == InitAssert /\ [][NextTwo]_vars

\* what a client sees through runtime i of world w: its state, the default
\* snapshot options it snapshots with, and the directories it writes to
Through(w, i) ==
    LET rt == Val(w.runtimes[i])
        b == rt._artifact_buffer
    IN  [runtime |-> rt,
         options |-> w.heap[rt._snapshot_options],
         temp |-> IF IsNone(b) THEN None ELSE Some(w.dirs[Val(b)._temp_dir]),
         out |-> IF IsNone(b) \/ IsNone(Val(b).run_dir) THEN None
                 ELSE Some(w.dirs[Val(Val(b).run_dir)])]

\* C34: no operation on one runtime changes what is seen through the other
RuntimesIsolated ==
    [][\A i \in Runtimes :
          /\ Built(i)
          /\ backend_call'.actor # i
          => Through(backend_call', i) = Through(backend_call, i)]_vars

-----------------------------------------------------------------------------
(* FailureArtifactBuffer.add_frame: the paths of the frames *)

\* C35: every add_frame writes to a path no frame was written to before: the
\* frame records of a buffer name files of their own, no two the same one
FramesOwnFiles ==
    ~IsNone(_artifact_buffer) =>
        LET frames == Val(_artifact_buffer)._frames
        IN  \A i, j \in 1..Len(frames) : i # j => frames[i].file_name # frames[j].file_name

-----------------------------------------------------------------------------
(* AgentRuntime.sampled_snapshot *)

\* await runtime.sampled_snapshot(), the page showing one of D.  A runtime made by
\* from_sentience_browser hands the call to snapshot(); any other asks the backend
\* for the union of the samples and returns it
sampled_snapshot(D) ==
    IF legacy THEN Snapshot(D)
    ELSE /\ pc = "idle"
         /\ \E c \in D : backend_call' = [status |-> "sampled", url |-> c.url]
         /\ events' = <<>>
         /\ UNCHANGED <<stepVars, snapVars, lastActionVars, captchaVars, _assertions_this_step,
                        _task_done, _artifact_buffer, legacy, snap_seq, pc, ev, hist>>

\* the pages of the sampling runs
SampledContents == {Content("A", None), Content("B", None)}

SampledSnapshotCall == sampled_snapshot(SampledContents)

SampledPlainSnapshotCall == Snapshot(SampledContents)

SampledAssertCall == \E kind \in {"url_is_B"} : assert_(kind, "check", FALSE, TRUE)

NextSampled ==
    \/ AssertBeginCall
    \/ SampledPlainSnapshotCall
    \/ SampledSnapshotCall
    \/ SampledAssertCall

SpecSampled == Init /\ [][NextSampled]_vars

\* C36: a sampled_snapshot call leaves last_snapshot, the step's pre_snapshot and
\* pre_url and the accumulated assertions as they were, on every runtime
SampledLeavesRuntime ==
    [][SampledSnapshotCall =>
          UNCHANGED <<last_snapshot, _step_pre_snapshot, _step_pre_url,
                      _assertions_this_step>>]_vars

-----------------------------------------------------------------------------
(* predicate/integrations/browser_use/plugin.py: the step hooks of
   PredicateBrowserUsePlugin *)

\* auto_checks a plugin is configured with
MaxChecks == 2

\* a check that is not passed never fails the step
NeverHard(spec, ok) == FALSE

\* if spec.required and not bool(ok): raise PredicateBrowserUseVerificationError
HardFailure(spec, ok) == spec.required /\ ~ok

\* for spec in self.config.auto_checks, from the i-th on; a check is what the
\* handle's once() or eventually() does: "true", "false" or "raises".  The loop
\* ends at the first exception, its own or the handle's
RECURSIVE RunChecks(_, _, _)
RunChecks(auto_checks, i, log) ==
    IF i > Len(auto_checks) THEN [log |-> log, err |-> None]
    ELSE
        LET spec == auto_checks[i]
            called == Append(log, <<"check", i>>)
        IN  IF spec.does = "raises" THEN [log |-> called, err |-> Some("check_error")]
            ELSE IF HardFailure(spec, spec.does = "true")
            THEN [log |-> called, err |-> Some("PredicateBrowserUseVerificationError")]
            ELSE RunChecks(auto_checks, i + 1, called)

\* PredicateBrowserUsePlugin.on_step_end on a bound plugin.  in: the config, whether
\* dbg.snapshot() and runtime.emit_step_end raise, and what agent.pause is ("none":
\* not callable, "ok", "raises"); log: the calls made so far.  The result is how
\* the hook ends: raised is the exception that leaves it, or None
on_step_end(in, log) ==
    LET config == in.config
        snapped == IF config.auto_snapshot_each_step THEN Append(log, <<"snapshot">>) ELSE log
        tried ==
            IF config.auto_snapshot_each_step /\ in.snapshot_raises
            THEN [log |-> snapped, err |-> Some("snapshot_error")]
            ELSE IF config.auto_checks_each_step /\ config.auto_checks # <<>>
            THEN RunChecks(config.auto_checks, 1, snapped)
            ELSE [log |-> snapped, err |-> None]
        err == tried.err
        closed == Append(tried.log, <<"emit_step_end", IsNone(err)>>)
        pauses == ~IsNone(err) /\ config.on_failure = "pause" /\ in.pause # "none"
        done == IF pauses THEN Append(closed, <<"pause">>) ELSE closed
        raises ==
            /\ ~IsNone(err)
            /\ config.on_failure # "log"
            /\ ~(config.on_failure = "pause" /\ in.pause = "ok")
    IN  [log |-> done, err |-> err,
         raised |-> IF raises THEN Some("PredicateBrowserUseVerificationError") ELSE None]

\* StepCheckSpec(required=...) and what its handle does
StepCheckSpec(required, does) == [required |-> required, does |-> does]

StepCheckSpecs == {StepCheckSpec(r, d) : r \in BOOLEAN, d \in {"true", "false", "raises"}}

RECURSIVE CheckLists(_)
CheckLists(n) ==
    IF n = 0 THEN {<<>>}
    ELSE LET shorter == CheckLists(n - 1)
         IN  shorter \cup {Append(q, c) : q \in {s \in shorter : Len(s) = n - 1},
                                          c \in StepCheckSpecs}

PluginConfigs ==
    {[auto_snapshot_each_step |-> a, auto_checks_each_step |-> e, auto_checks |-> c,
      on_failure |-> f]
        : a \in BOOLEAN, e \in BOOLEAN, c \in CheckLists(MaxChecks),
          f \in {"raise", "pause", "log"}}

\* wrap_step: await self.on_step_start(agent); has_session: the agent has a
\* browser_session, without which the hook raises and wrap_step with it
WrapStart(in, has_session) ==
    /\ backend_call.status = "none"
    /\ BackendBecomes([status |-> IF has_session THEN "started" ELSE "raised",
                       in |-> in, log |-> <<<<"on_step_start">>>>,
                       step_raised |-> FALSE, ended |-> FALSE, err |-> None,
                       raised |-> IF has_session THEN None ELSE Some("RuntimeError")])

\* try: return await step_coro()
WrapStep(step_raises) ==
    /\ backend_call.status = "started"
    /\ BackendBecomes([backend_call EXCEPT !.status = "stepped",
                                           !.log = Append(@, <<"step">>),
                                           !.step_raised = step_raises])

\* finally: await self.on_step_end(agent); an exception of the hook replaces the step's
WrapEnd ==
    /\ backend_call.status = "stepped"
    /\ LET end == on_step_end(backend_call.in, Append(backend_call.log, <<"on_step_end">>))
       IN  BackendBecomes([backend_call EXCEPT
               !.status = IF ~IsNone(end.raised) \/ backend_call.step_raised
                          THEN "raised" ELSE "returned",
               !.log = end.log, !.ended = TRUE, !.err = end.err,
               !.raised = IF ~IsNone(end.raised) THEN end.raised
                          ELSE IF backend_call.step_raised THEN Some("step_error")
                          ELSE None])

WrapStartCall ==
    /\ backend_call.status = "none"
    /\ \E config \in PluginConfigs, snapshot_raises \in BOOLEAN, emit_raises \in BOOLEAN,
          pause \in {"none", "ok", "raises"}, has_session \in BOOLEAN :
          WrapStart([config |-> config, snapshot_raises |-> snapshot_raises,
                     emit_raises |-> emit_raises, pause |-> pause], has_session)

NextPlugin ==
    \/ WrapStartCall
    \/ \E step_raises \in BOOLEAN : WrapStep(step_raises)
    \/ WrapEnd

SpecPlugin == InitAssert /\ [][NextPlugin]_vars

\* the places of the calls named what in a log
Calls(log, what) == {i \in 1..Len(log) : log[i][1] = what}

\* the first check of the list that raises, or is required and returns false;
\* 0 when there is none
FirstBad(auto_checks) ==
    LET bad == {i \in 1..Len(auto_checks) :
                   \/ auto_checks[i].does = "raises"
                   \/ auto_checks[i].required /\ auto_checks[i].does = "false"}
    IN  IF bad = {} THEN 0 ELSE CHOOSE i \in bad : \A j \in bad : i <= j

\* C37: on_step_end attempts emit_step_end exactly once, with success = no error
\* occurred, whether or not the snapshot or a check raised; a required check
\* that returns false ends the checks and is an error; on an error the hook
\* raises PredicateBrowserUseVerificationError under on_failure = raise, returns
\* under log, and under pause calls agent.pause() when it is callable and
\* returns if that succeeds, else raises.  wrap_step runs on_step_start, the
\* step and on_step_end in this order, on_step_end also when the step raised
PluginStepEnd ==
    ("in" \in DOMAIN backend_call /\ backend_call.ended) =>
        LET f == backend_call
            config == f.in.config
            snap_failed == config.auto_snapshot_each_step /\ f.in.snapshot_raises
            checking == ~snap_failed /\ config.auto_checks_each_step
            bad == IF checking THEN FirstBad(config.auto_checks) ELSE 0
            failed == snap_failed \/ bad > 0
            emits == Calls(f.log, "emit_step_end")
            hook_raised == f.raised = Some("PredicateBrowserUseVerificationError")
        IN  /\ Cardinality(emits) = 1
            /\ \A i \in emits : f.log[i][2] = ~failed
            /\ Cardinality(Calls(f.log, "check")) =
                  IF ~checking THEN 0 ELSE IF bad > 0 THEN bad ELSE Len(config.auto_checks)
            /\ ~failed => ~hook_raised /\ Calls(f.log, "pause") = {}
            /\ failed /\ config.on_failure = "raise" => hook_raised
            /\ failed /\ config.on_failure = "log" => ~hook_raised
            /\ failed /\ config.on_failure = "pause" =>
                  /\ Calls(f.log, "pause") # {} <=> f.in.pause # "none"
                  /\ hook_raised <=> f.in.pause # "ok"
            /\ config.on_failure # "pause" => Calls(f.log, "pause") = {}
            /\ ~hook_raised => (f.status = "raised" <=> f.step_raised)
            /\ SubSeq(f.log, 1, 3) = <<<<"on_step_start">>, <<"step">>, <<"on_step_end">>>>
            /\ \A i \in Calls(f.log, "on_step_end") : i = 3

\* the step raised; on_step_end still ran, its second check was required and
\* returned false, pause() failed, and the hook raised
PluginWitness ==
    /\ "in" \in DOMAIN backend_call
    /\ backend_call.ended
    /\ backend_call.step_raised
    /\ backend_call.in.config.on_failure = "pause"
    /\ backend_call.in.pause = "raises"
    /\ Len(backend_call.in.config.auto_checks) = 2
    /\ backend_call.in.config.auto_checks[1] = StepCheckSpec(FALSE, "false")
    /\ backend_call.in.config.auto_checks[2] = StepCheckSpec(TRUE, "false")
    /\ Cardinality(Calls(backend_call.log, "check")) = 2
    /\ backend_call.raised = Some("PredicateBrowserUseVerificationError")

-----------------------------------------------------------------------------
(* Actions of a run after its failure artifacts were persisted *)

\* _capture_artifact_frame on a buffer whose temporary directory cleanup() has
\* removed: the screenshot arrives, and add_frame's write_bytes raises
\* FileNotFoundError, which nothing between it and the caller of record_action catches
CaptureRaises(buffer, shot) ==
    /\ ~IsNone(buffer)
    /\ Val(buffer).capture_on_action
    /\ shot
    /\ Val(buffer).cleaned

\* a required assertion that fails, or passes
CleanedAssertCall == \E kind \in {"always", "never"} : assert_(kind, "check", TRUE, TRUE)

CleanedScrollCall ==
    \E verify \in BOOLEAN, effective \in BOOLEAN, shot \in BOOLEAN :
        ScrollBy(verify, "scroll_effective", FALSE, "A", shot, effective, TRUE)

NextCleaned ==
    \/ TimerEnable
    \/ TimerCapture
    \/ CleanedAssertCall
    \/ RecordActionCall
    \/ CleanedScrollCall
    \/ FlushAssertionsCall

SpecCleaned == InitAssert /\ [][NextCleaned]_vars

\* the failure artifacts of the run were persisted and its temporary directory removed
PersistedOnFailure ==
    /\ ~IsNone(_artifact_buffer)
    /\ Val(_artifact_buffer).cleaned
    /\ Len(Val(_artifact_buffer).bundles) = 1

\* C38: once the failure artifacts were persisted for a failed required assertion,
\* every record_action and every scroll_by still completes without raising,
\* under both persist modes, and the timer no longer captures
ActionsSurviveCleanup ==
    [][PersistedOnFailure =>
          /\ \A shot \in BOOLEAN :
                RecordAction("click", shot) => ~CaptureRaises(_artifact_buffer, shot)
          /\ CleanedScrollCall => hist'.fin.returned
          /\ Val(_artifact_buffer').timer # "failed"]_vars


----------------------------------------------------------------------------
(* Termination of eventually(): runs in which the monotonic clock advances (every
   snapshot takes at least one tick) and every snapshot, predicate evaluation,
   provider call and sleep completes *)

\* timeout_s and poll_s of the runs, in ticks: no timeout, no pause between polls
LiveTimings == {<<0, 0>>, <<0, 1>>, <<1, 0>>, <<2, 0>>, <<2, 1>>}

\* the runs make one eventually() call, with a predicate that returns
LiveEventuallyCall ==
    /\ ev.status = "none"
    /\ \E t \in LiveTimings, g \in Gatings, kind \in {"url_is_B", "never"},
          required \in BOOLEAN :
         Eventually(EvArgs(t[1], t[2], g[1], g[2], None, None, g[3], kind, "check",
                           required))

\* await self.snapshot(**snap_kwargs), while the clock advances
LiveSnapshotCall == EvSnapshotTaking(EvContents, 1..MaxSnapDur)

NextLive ==
    \/ EvAssertCall
    \/ LiveEventuallyCall
    \/ LiveSnapshotCall
    \/ EvLowConfidence
    \/ EvPredicate
    \/ EvVision

\* every await of the loop completes
SpecLive ==
    /\ InitEventually
    /\ [][NextLive]_vars
    /\ WF_vars(LiveSnapshotCall)
    /\ WF_vars(EvLowConfidence)
    /\ WF_vars(EvPredicate)
    /\ WF_vars(EvVision)

\* the call left by an exception of snapshot()
SnapshotRaised == ev.status = "raised" /\ hist.last_call = "raised"

\* C39: an eventually() call ends, for any timeout_s >= 0 and poll_s >= 0: with the
\* clock advancing it makes at most timeout_s + 1 attempts, and then it has returned a
\* boolean or an exception of snapshot() has left it; a call that returned took at
\* least one snapshot; a call left by an exception of snapshot() accumulated no final
\* record. (In these runs the tracer may raise as well, which also ends the call.)
EventuallyTerminates ==
    /\ [](ev.status # "none" => ev.attempt <= ev.args.timeout_s + 1)
    /\ [](ev.status = "returned" => ev.snapshot_attempt >= 1 /\ ev.result \in BOOLEAN)
    /\ [](SnapshotRaised =>
            \A i \in (ev.base + 1)..Len(_assertions_this_step) :
                ~_assertions_this_step[i].final)
    /\ (ev.status = "running") ~> (ev.status \in {"returned", "raised"})

\* a call with timeout_s = 2 and no pause between polls gave up after its second attempt
LiveWitness ==
    /\ ev.status = "returned"
    /\ ev.args.timeout_s = 2
    /\ ev.args.poll_s = 0
    /\ ev.attempt = 2
    /\ ~ev.result


----------------------------------------------------------------------------
(* PredicateBrowserAgent: run() over step(), with the run-level vision budget.
   RuntimeAgent.run_step is not part of the sources: a step succeeds or fails. *)

\* the longest list of steps a run is given
MaxRunSteps == 3
\* the largest max_vision_calls of a configuration
MaxVisionCalls == 2

\* A RuntimeStep: its goal and its vision_executor_enabled
RuntimeStep(goal, vision_executor_enabled) ==
    [goal |-> goal, vision_executor_enabled |-> vision_executor_enabled]

\* StepOutcome(step_goal, ok, used_vision), with what step() found and did: the budget
\* counter before the call and the vision_executor_enabled of the step it ran
StepOutcome(step_goal, ok, used_vision, before, ran_enabled) ==
    [step_goal |-> step_goal, ok |-> ok, used_vision |-> used_vision, before |-> before,
     ran_enabled |-> ran_enabled]

\* the budget cut one call too late
BudgetOverspent(vision, _vision_calls_used) ==
    vision.enabled /\ vision.max_vision_calls > 0
    /\ _vision_calls_used > vision.max_vision_calls
\* config.vision.enabled and max_vision_calls > 0 and _vision_calls_used >= max_vision_calls
BudgetSpent(vision, _vision_calls_used) ==
    vision.enabled /\ vision.max_vision_calls > 0
    /\ _vision_calls_used >= vision.max_vision_calls

\* PredicateBrowserAgent.step(step), run_step returning ok, on the agent a: the outcome
\* and the agent's budget counter afterwards
AgentStep(a, step, ok) ==
    LET ran == IF BudgetSpent(a.vision, a._vision_calls_used)
               THEN RuntimeStep(step.goal, FALSE)
               ELSE step
        used_vision == ran.vision_executor_enabled /\ ~ok /\ a.vision_executor = "sighted"
        after == IF used_vision THEN a._vision_calls_used + 1 ELSE a._vision_calls_used
    IN  [out |-> StepOutcome(ran.goal, ok, used_vision, a._vision_calls_used,
                             ran.vision_executor_enabled),
         _vision_calls_used |-> after]

\* A new agent (no vision call used) entering run(steps, stop_on_failure)
AgentFrame(vision, vision_executor, steps, stop_on_failure) ==
    [status |-> IF steps = <<>> THEN "returned" ELSE "running",
     result |-> TRUE,
     vision |-> vision,
     vision_executor |-> vision_executor,
     steps |-> steps,
     stop_on_failure |-> stop_on_failure,
     outs |-> <<>>,
     _vision_calls_used |-> 0]

\* run(): one round of its loop, the step's run_step returning ok; it returns False from
\* a failed step under stop_on_failure, and True after the last step
AgentRunRound(ok) ==
    /\ backend_call.status = "running"
    /\ LET a == backend_call
           step == a.steps[Len(a.outs) + 1]
           did == AgentStep(a, step, ok)
           outs == Append(a.outs, did.out)
           stopped == a.stop_on_failure /\ ~did.out.ok
           done == stopped \/ Len(outs) = Len(a.steps)
       IN  BackendBecomes([a EXCEPT !.outs = outs,
                                    !._vision_calls_used = did._vision_calls_used,
                                    !.status = IF done THEN "returned" ELSE "running",
                                    !.result = ~stopped])

RuntimeSteps == {RuntimeStep(goal, enabled) : goal \in {"g1", "g2"}, enabled \in BOOLEAN}

RECURSIVE StepLists(_)
StepLists(n) ==
    IF n = 0 THEN {<<>>}
    ELSE LET shorter == StepLists(n - 1)
         IN  shorter \cup {Append(q, s) : q \in {l \in shorter : Len(l) = n - 1},
                                          s \in RuntimeSteps}

VisionConfigs ==
    {[enabled |-> e, max_vision_calls |-> n] : e \in BOOLEAN, n \in 0..MaxVisionCalls}

AgentRunCall ==
    /\ backend_call.status = "none"
    /\ \E vision \in VisionConfigs, vision_executor \in {"none", "blind", "sighted"},
          steps \in StepLists(MaxRunSteps), stop_on_failure \in BOOLEAN :
         BackendBecomes(AgentFrame(vision, vision_executor, steps, stop_on_failure))

AgentRunRoundCall == \E ok \in BOOLEAN : AgentRunRound(ok)

NextAgent ==
    \/ AgentRunCall
    \/ AgentRunRoundCall

SpecAgent == InitAssert /\ [][NextAgent]_vars

AgentRan == backend_call.status \in {"running", "returned"}

\* every step that ran came out ok
AllOk == \A i \in 1..Len(backend_call.outs) : backend_call.outs[i].ok

\* the steps ran in list order, none skipped
RanInOrder ==
    /\ Len(backend_call.outs) <= Len(backend_call.steps)
    /\ \A i \in 1..Len(backend_call.outs) :
         backend_call.outs[i].step_goal = backend_call.steps[i].goal

\* under stop_on_failure no step ran after a failed one
StoppedAtFailure ==
    backend_call.stop_on_failure =>
        \A i \in 1..Len(backend_call.outs) :
            ~backend_call.outs[i].ok => i = Len(backend_call.outs)

\* the budget counter is within max_vision_calls, and the steps that began with the
\* budget spent ran with the vision executor disabled
WithinBudget ==
    /\ backend_call._vision_calls_used <= backend_call.vision.max_vision_calls
    /\ \A i \in 1..Len(backend_call.outs) :
         backend_call.outs[i].before >= backend_call.vision.max_vision_calls
            => ~backend_call.outs[i].ran_enabled

\* C40 as stated: run returns True iff every step it ran came out ok, whatever
\* stop_on_failure is, and the vision budget binds whenever max_vision_calls > 0
RunTrueIffAllOk ==
    AgentRan =>
        /\ RanInOrder
        /\ StoppedAtFailure
        /\ backend_call.status = "returned" => (backend_call.result <=> AllOk)
        /\ backend_call.vision.max_vision_calls > 0 => WithinBudget

\* C40: run executes the steps in list order; with stop_on_failure it returns False at
\* the first failed step, running no later step, and True when every step came out ok;
\* without stop_on_failure it runs every step and returns True whatever the outcomes.
\* When config.vision.enabled and max_vision_calls > 0 the budget counter never exceeds
\* max_vision_calls and every step begun with the budget spent runs with the vision
\* executor disabled
RunStopsOrReturnsTrue ==
    AgentRan =>
        /\ RanInOrder
        /\ StoppedAtFailure
        /\ backend_call.status = "returned" =>
             /\ backend_call.result <=> (backend_call.stop_on_failure => AllOk)
             /\ backend_call.result => Len(backend_call.outs) = Len(backend_call.steps)
        /\ (backend_call.vision.enabled /\ backend_call.vision.max_vision_calls > 0)
             => WithinBudget

\* a run without stop_on_failure returned True after a failed step that spent the last
\* vision call of the budget, the step after it running with the vision executor disabled
AgentWitness ==
    /\ backend_call.status = "returned"
    /\ ~backend_call.stop_on_failure
    /\ backend_call.result
    /\ backend_call.vision.enabled
    /\ backend_call.vision.max_vision_calls = 1
    /\ backend_call._vision_calls_used = 1
    /\ Len(backend_call.outs) = 3
    /\ backend_call.outs[1].used_vision
    /\ backend_call.steps[2].vision_executor_enabled
    /\ ~backend_call.outs[2].ran_enabled

====
